---- MODULE Spec2Model ----
(***************************************************************************)
(* Remote-sync store of the sticky-notes / time-box / to-do application    *)
(* (src/hooks/useFirestoreNotes.ts) together with the TodoBox and TimeBox  *)
(* handlers that call it.  The remote document store is shared by the      *)
(* sessions; every session is one mounted useFirestoreNotes hook.          *)
(*                                                                         *)
(* Positions in sequences are 1-based here, array indices in the source    *)
(* are 0-based: the element at position p has source index p - 1.          *)
(***************************************************************************)
EXTENDS Integers, Sequences, FiniteSets, TLC

\* ---------------------------------------------------------------- bounds
MaxDay == 2          \* calendar dates are 1..MaxDay
MaxTodos == 3        \* todo documents ever created
MaxTbOps == 2        \* updateTimeBoxEntry calls in flight at once
MaxRollTodos == 2    \* todo documents created in the specification with fixed todos
MaxNotes == 2        \* note documents ever created
MaxFiles == 2        \* file documents ever created
MaxTime == 3         \* server timestamps are 1..MaxTime
MaxZ == 53           \* style.zIndex values stay below MaxZ + 1

Days == 1..MaxDay
TodoIds == 1..MaxTodos
Sessions == {"s1", "s2"}
Hours == {9, 10}
Slots == {1, 2}
Texts == {"", "a"}

NoUser == "null"
User == "u1"
NoIndex == 0         \* draggedItemIndex === null
NoteIds == 1..MaxNotes
FileIds == 1..MaxFiles
NoError == "null"    \* error === null

Min(S) == CHOOSE x \in S : \A y \in S : x <= y
Max(S) == CHOOSE x \in S : \A y \in S : x >= y

VARIABLES
  now,               \* the calendar date of the wall clock
  remoteTodos,       \* collection 'todos' of the identity: id -> document
  remoteTb,          \* collection 'timeboxes' of the identity: date -> document
  userId,            \* per session: the hook's userId argument
  todayStr,          \* per session: the todayStr state
  todos,             \* per session: the todos state (published visible list)
  todosSub,          \* per session: the todos subscription (mode, captured date, snapshot due)
  rollover,          \* per session: the rollover batch whose commit is awaited
  draggedItemIndex,  \* per session: TodoBox's draggedItemIndex state
  timeBox,           \* per session: the timeBox state
  tbSub,             \* per session: open time-box document listeners, snapshot due
  tbOps,             \* updateTimeBoxEntry calls between their getDoc and their setDoc
  lastAdd,           \* per session: the latest addTodo call and the list it read (history)
  authUser,          \* per session: the user state of useAuth
  error,             \* per session: the error state of the hook
  lastOutcome,       \* per session: the latest call that ended without its write, and how (history)
  serverTime,        \* the server clock behind serverTimestamp()
  remoteNotes,       \* collection 'notes' of the identity: id -> document
  notes,             \* per session: the notes state
  notesSub,          \* per session: the notes subscription (mode, snapshot due)
  remoteFiles,       \* collection 'files' of the identity: id -> document
  files,             \* per session: the files state
  filesSub,          \* per session: the files subscription (mode, snapshot due)
  fileReads,         \* FileReader reads of addFile that have not loaded yet
  remoteSettings,    \* the settings document todoBox_<identity>
  remoteTbPos,       \* field position of the time-box documents: date -> position
  zIndex,            \* the DOM: style.zIndex of the floating windows of one page
  drag,              \* the drag controller of one page
  visual,            \* the DOM: position and size of the floating windows of one page
  val,               \* per session: the val state of the OptimizedInput of one slot
  isInternalChange   \* per session: the isInternalChange ref of that input

vars == <<now, remoteTodos, remoteTb, userId, todayStr, todos, todosSub, rollover,
          draggedItemIndex, timeBox, tbSub, tbOps, lastAdd,
          authUser, error, lastOutcome, serverTime, remoteNotes, notes, notesSub,
          remoteFiles, files, filesSub, fileReads, remoteSettings, remoteTbPos,
          zIndex, drag, visual, val, isInternalChange>>

\* the state beside the to-do list and the time-box entries
authVars == <<authUser, error, lastOutcome>>
noteVars == <<serverTime, remoteNotes, notes, notesSub>>
fileVars == <<remoteFiles, files, filesSub, fileReads>>
geomVars == <<remoteSettings, remoteTbPos>>
domVars == <<zIndex, drag, visual>>
inputVars == <<val, isInternalChange>>
extVars == <<authVars, noteVars, fileVars, geomVars, domVars, inputVars>>

\* ------------------------------------------------------------ documents
NoDoc == [exists |-> FALSE]
NoBatch == [active |-> FALSE]
NoSub == [mode |-> "none", date |-> 1, pending |-> FALSE]
NoTimeBox == [null |-> TRUE]
NoAdd == [called |-> FALSE]
NoListener == [mode |-> "none", pending |-> FALSE]
NoOutcome == [op |-> "none", arg |-> <<>>, result |-> "none"]
NoPosition == [set |-> FALSE]   \* a document without the field

\* { id: doc.id, ...doc.data() } as Todo
TodoOf(id, d) ==
  [id |-> id, completed |-> d.completed, fixed |-> d.fixed,
   lastDate |-> d.lastDate, order |-> d.order]

\* the documents of a todos snapshot in document-id order (the query without orderBy)
RECURSIVE DocsUpTo(_, _)
DocsUpTo(remote, n) ==
  IF n = 0 THEN <<>>
  ELSE LET rest == DocsUpTo(remote, n - 1)
       IN IF remote[n].exists THEN Append(rest, TodoOf(n, remote[n])) ELSE rest

FallbackQueryDocs(remote) == DocsUpTo(remote, MaxTodos)

\* orderBy('order', 'asc'): ascending order field, ties in document-id order
InsertByOrder(x, s) ==
  LET later == {j \in 1..Len(s) : s[j].order > x.order}
      p == IF later = {} THEN Len(s) + 1 ELSE Min(later)
  IN SubSeq(s, 1, p - 1) \o <<x>> \o SubSeq(s, p, Len(s))

RECURSIVE SortByOrder(_)
SortByOrder(s) ==
  IF s = <<>> THEN <<>>
  ELSE InsertByOrder(s[Len(s)], SortByOrder(SubSeq(s, 1, Len(s) - 1)))

OrderedQueryDocs(remote) == SortByOrder(FallbackQueryDocs(remote))

\* ------------------------------------------------- visible list (filter, sort)
\* t.order || 0
OrZero(n) == IF n = 0 THEN 0 ELSE n

\* TodoCmp without the completed test
TodoCmpOrderOnly(a, b) == OrZero(a.order) - OrZero(b.order)

\* the comparator of the visible list: completed last, then by order
TodoCmp(a, b) ==
  IF a.completed # b.completed
  THEN (IF a.completed THEN 1 ELSE -1)
  ELSE OrZero(a.order) - OrZero(b.order)

\* Array.prototype.sort is stable: x goes after every element that does not compare greater
InsertTodo(x, s) ==
  LET later == {j \in 1..Len(s) : TodoCmp(s[j], x) > 0}
      p == IF later = {} THEN Len(s) + 1 ELSE Min(later)
  IN SubSeq(s, 1, p - 1) \o <<x>> \o SubSeq(s, p, Len(s))

RECURSIVE SortTodos(_)
SortTodos(s) ==
  IF s = <<>> THEN <<>>
  ELSE InsertTodo(s[Len(s)], SortTodos(SubSeq(s, 1, Len(s) - 1)))

\* FILTER: keep only today's or fixed todos
IsCurrent(t, today) == t.lastDate = today \/ t.fixed

VisibleTodos(allTodos, today) ==
  SortTodos(SelectSeq(allTodos, LAMBDA t : IsCurrent(t, today)))

\* ------------------------------------------------------------- rollover
\* RolloverKind with a fixed todo carried forward like an unfinished one-off todo
RolloverKindFixedCarried(t, today) ==
  IF t.lastDate # today
  THEN (IF t.fixed THEN "carry" ELSE IF ~t.completed THEN "carry" ELSE "none")
  ELSE "none"

\* the update processTodos schedules for one todo of the snapshot
RolloverKind(t, today) ==
  IF t.lastDate # today
  THEN (IF t.fixed THEN "reset" ELSE IF ~t.completed THEN "carry" ELSE "none")
  ELSE "none"

RolloverUpdates(allTodos, today) ==
  [id \in TodoIds |->
     IF \E i \in 1..Len(allTodos) : allTodos[i].id = id
     THEN LET i == CHOOSE i \in 1..Len(allTodos) : allTodos[i].id = id
          IN RolloverKind(allTodos[i], today)
     ELSE "none"]

HasChanges(updates) == \E id \in TodoIds : updates[id] # "none"

\* ApplyRollover whose reset of a fixed todo leaves lastDate as it was
ApplyRolloverKeepsDate(updates, today, remote) ==
  [id \in TodoIds |->
     IF updates[id] = "reset"
     THEN [remote[id] EXCEPT !.completed = FALSE]
     ELSE IF updates[id] = "carry"
     THEN [remote[id] EXCEPT !.lastDate = today]
     ELSE remote[id]]

\* rolloverBatch.commit(): every scheduled update in one atomic write
ApplyRollover(updates, today, remote) ==
  [id \in TodoIds |->
     IF updates[id] = "reset"
     THEN [remote[id] EXCEPT !.completed = FALSE, !.lastDate = today]
     ELSE IF updates[id] = "carry"
     THEN [remote[id] EXCEPT !.lastDate = today]
     ELSE remote[id]]

\* what a session's listener sees: the server state overlaid with its own pending batch
LocalTodos(s) ==
  IF rollover[s].active
  THEN ApplyRollover(rollover[s].updates, rollover[s].date, remoteTodos)
  ELSE remoteTodos

\* a change of the collection makes a snapshot due on every open todos listener
NotifyTodos(subs) ==
  [s \in Sessions |->
     IF subs[s].mode = "none" THEN subs[s] ELSE [subs[s] EXCEPT !.pending = TRUE]]

\* ------------------------------------------------------------- effects
\* the todos subscription effect, deps [todayStr, userId]
TodosEffect(user, today) ==
  IF user = NoUser THEN NoSub
  ELSE [mode |-> "ordered", date |-> today, pending |-> TRUE]

\* TimeBoxEffectOpen without the cleanup of the previous listener
TimeBoxEffectOpenNoCleanup(open, user, today) ==
  IF user = NoUser THEN {} ELSE open \cup {today}

\* the listeners left open by the TimeBox subscription effect, deps [todayStr, userId]:
\* the cleanup closes the previous listener, the effect opens today's
TimeBoxEffectOpen(open, user, today) ==
  IF user = NoUser THEN {} ELSE {today}

TimeBoxEffect(sub, user, today) ==
  [open |-> TimeBoxEffectOpen(sub.open, user, today), pending |-> user # NoUser]

\* ------------------------------------------------------------- the page
\* the floating windows: the note cards, the time-box and the todo-box
NoteWindows == {"n1", "n2"}
Windows == NoteWindows \cup {"timebox", "todobox"}

NotRendered == -1    \* the window has no element in the document
UnsetZ == 0          \* style.zIndex === '' (the components set no inline z-index)
BaseZ == 10          \* the z-index every window is reset to
RaiseZ == 50         \* the least z-index given to the focused window

InitialZIndex == [w \in Windows |-> NotRendered]

\* the drag controller's states
Idle == [state |-> "idle", committed |-> <<>>, listeners |-> 0]

\* left/top and width/height of the windows as React renders them at first
InitialVisual ==
  [w \in Windows |->
     IF w \in NoteWindows THEN [x |-> 100, y |-> 100, width |-> 300, height |-> 300]
     ELSE IF w = "timebox" THEN [x |-> 100, y |-> 100, width |-> 0, height |-> 0]
     ELSE [x |-> 50, y |-> 150, width |-> 0, height |-> 500]]

\* the notes and the files subscription effects, deps [userId]
CollectionEffect(user) ==
  IF user = NoUser THEN NoListener ELSE [mode |-> "ordered", pending |-> TRUE]

\* ------------------------------------------------------- the slot input
NoEntry == [present |-> FALSE]
NoEntries == [h \in Hours |-> NoEntry]

SlotOf(e, sl) == IF sl = 1 THEN e.slot1 ELSE e.slot2

\* TimeBoxRow: data?.entries[hour]?.[slotN] || ''
SlotValue(tb, h, sl) ==
  IF tb.null THEN ""
  ELSE IF tb.entries[h].present THEN SlotOf(tb.entries[h], sl) ELSE ""

\* the slot whose OptimizedInput is followed: the first half of hour 9
InputHour == 9
InputSlot == 1

\* the initialValue prop of that input
InitialValue(tb) == SlotValue(tb, InputHour, InputSlot)

\* OptimizedInput's effect, deps [initialValue], after the render with the timeBox state
\* tb: if (!isInternalChange.current) setVal(initialValue); isInternalChange.current = false
InputEffect(tb) ==
  /\ val' = [s \in Sessions |->
        IF InitialValue(tb[s]) # InitialValue(timeBox[s]) /\ ~isInternalChange[s]
        THEN InitialValue(tb[s]) ELSE val[s]]
  /\ isInternalChange' = [s \in Sessions |->
        IF InitialValue(tb[s]) # InitialValue(timeBox[s])
        THEN FALSE ELSE isInternalChange[s]]

\* ------------------------------------------------------------------ Init
Init ==
  /\ now = 1
  /\ remoteTodos = [id \in TodoIds |-> NoDoc]
  /\ remoteTb = [d \in Days |-> NoDoc]
  /\ userId = [s \in Sessions |-> NoUser]
  /\ todayStr = [s \in Sessions |-> 1]
  /\ todos = [s \in Sessions |-> <<>>]
  /\ todosSub = [s \in Sessions |-> NoSub]
  /\ rollover = [s \in Sessions |-> NoBatch]
  /\ draggedItemIndex = [s \in Sessions |-> NoIndex]
  /\ timeBox = [s \in Sessions |-> NoTimeBox]
  /\ tbSub = [s \in Sessions |-> [open |-> {}, pending |-> FALSE]]
  /\ tbOps = {}
  /\ lastAdd = [s \in Sessions |-> NoAdd]
  /\ authUser = [s \in Sessions |-> NoUser]
  /\ error = [s \in Sessions |-> NoError]
  /\ lastOutcome = [s \in Sessions |-> NoOutcome]
  /\ serverTime = 1
  /\ remoteNotes = [id \in NoteIds |-> NoDoc]
  /\ notes = [s \in Sessions |-> <<>>]
  /\ notesSub = [s \in Sessions |-> NoListener]
  /\ remoteFiles = [id \in FileIds |-> NoDoc]
  /\ files = [s \in Sessions |-> <<>>]
  /\ filesSub = [s \in Sessions |-> NoListener]
  /\ fileReads = {}
  /\ remoteSettings = [position |-> NoPosition, size |-> NoPosition]
  /\ remoteTbPos = [d \in Days |-> NoPosition]
  /\ zIndex = InitialZIndex
  /\ drag = Idle
  /\ visual = InitialVisual
  /\ val = [s \in Sessions |-> ""]
  /\ isInternalChange = [s \in Sessions |-> FALSE]

\* --------------------------------------------------------------- actions
\* the identity is handed to the hook: every effect with userId in its deps runs
SignIn(s) ==
  /\ userId[s] = NoUser
  /\ userId' = [userId EXCEPT ![s] = User]
  /\ todosSub' = [todosSub EXCEPT ![s] = TodosEffect(User, todayStr[s])]
  /\ tbSub' = [tbSub EXCEPT ![s] = TimeBoxEffect(tbSub[s], User, todayStr[s])]
  /\ notesSub' = [notesSub EXCEPT ![s] = CollectionEffect(User)]
  /\ filesSub' = [filesSub EXCEPT ![s] = CollectionEffect(User)]
  /\ UNCHANGED <<now, remoteTodos, remoteTb, todayStr, todos, rollover,
                 draggedItemIndex, timeBox, tbOps, lastAdd>>
  /\ UNCHANGED <<authVars, serverTime, remoteNotes, notes, remoteFiles, files, fileReads,
                 geomVars, domVars, inputVars>>

\* the calendar date advances
AdvanceDate ==
  /\ now < MaxDay
  /\ now' = now + 1
  /\ UNCHANGED <<remoteTodos, remoteTb, userId, todayStr, todos, todosSub, rollover,
                 draggedItemIndex, timeBox, tbSub, tbOps, lastAdd>>
  /\ UNCHANGED extVars

\* the one-minute timer: setTodayStr, then the re-render runs the effects that depend on
\* todayStr (todos and time-box subscriptions are closed and re-opened; the caches are
\* only replaced when there is no identity)
TimerTick(s) ==
  /\ now # todayStr[s]
  /\ todayStr' = [todayStr EXCEPT ![s] = now]
  /\ todosSub' = [todosSub EXCEPT ![s] = TodosEffect(userId[s], now)]
  /\ tbSub' = [tbSub EXCEPT ![s] = TimeBoxEffect(tbSub[s], userId[s], now)]
  /\ todos' = [todos EXCEPT ![s] = IF userId[s] = NoUser THEN <<>> ELSE @]
  /\ timeBox' = [timeBox EXCEPT ![s] = IF userId[s] = NoUser THEN NoTimeBox ELSE @]
  /\ UNCHANGED <<now, remoteTodos, remoteTb, userId, rollover, draggedItemIndex,
                 tbOps, lastAdd>>
  /\ UNCHANGED <<authVars, noteVars, fileVars, geomVars, domVars>>
  /\ InputEffect(timeBox')

\* the ordered todos query fails for want of an index: the error handler opens the
\* fallback listener
TodosIndexError(s) ==
  /\ todosSub[s].mode = "ordered"
  /\ todosSub[s].pending
  /\ todosSub' = [todosSub EXCEPT ![s] = [@ EXCEPT !.mode = "fallback", !.pending = TRUE]]
  /\ UNCHANGED <<now, remoteTodos, remoteTb, userId, todayStr, todos, rollover,
                 draggedItemIndex, timeBox, tbSub, tbOps, lastAdd>>
  /\ UNCHANGED extVars

\* processTodos on a snapshot of the ordered query: schedule the rollover updates and
\* hand the batch to commit, or publish the visible list
ProcessTodos(s) ==
  /\ todosSub[s].mode = "ordered"
  /\ todosSub[s].pending
  /\ LET today == todosSub[s].date
         allTodos == OrderedQueryDocs(LocalTodos(s))
         updates == RolloverUpdates(allTodos, today)
     IN IF HasChanges(updates)
        THEN /\ ~rollover[s].active
             /\ rollover' = [rollover EXCEPT ![s] =
                   [active |-> TRUE, updates |-> updates, date |-> today,
                    snap |-> LocalTodos(s)]]
             /\ todosSub' = [todosSub EXCEPT ![s] = [@ EXCEPT !.pending = TRUE]]
             /\ UNCHANGED <<todos, lastAdd>>
        ELSE /\ todos' = [todos EXCEPT ![s] = VisibleTodos(allTodos, today)]
             /\ todosSub' = [todosSub EXCEPT ![s] = [@ EXCEPT !.pending = FALSE]]
             /\ lastAdd' = [lastAdd EXCEPT ![s] = NoAdd]
             /\ UNCHANGED rollover
  /\ UNCHANGED <<now, remoteTodos, remoteTb, userId, todayStr, draggedItemIndex,
                 timeBox, tbSub, tbOps>>
  /\ UNCHANGED extVars

\* the awaited rolloverBatch.commit() reaches the server
CommitRollover(s) ==
  /\ rollover[s].active
  /\ remoteTodos' = ApplyRollover(rollover[s].updates, rollover[s].date, remoteTodos)
  /\ rollover' = [rollover EXCEPT ![s] = NoBatch]
  /\ todosSub' = NotifyTodos(todosSub)
  /\ UNCHANGED <<now, remoteTb, userId, todayStr, todos, draggedItemIndex,
                 timeBox, tbSub, tbOps, lastAdd>>
  /\ UNCHANGED extVars

\* the snapshot handler of the fallback listener: filter and sort only
FallbackTodos(s) ==
  /\ todosSub[s].mode = "fallback"
  /\ todosSub[s].pending
  /\ todos' = [todos EXCEPT ![s] =
        VisibleTodos(FallbackQueryDocs(LocalTodos(s)), todosSub[s].date)]
  /\ todosSub' = [todosSub EXCEPT ![s] = [@ EXCEPT !.pending = FALSE]]
  /\ lastAdd' = [lastAdd EXCEPT ![s] = NoAdd]
  /\ UNCHANGED <<now, remoteTodos, remoteTb, userId, todayStr, rollover,
                 draggedItemIndex, timeBox, tbSub, tbOps>>
  /\ UNCHANGED extVars

\* ------------------------------------------------------- todo mutations
\* A session's writes reach the server in the order they were issued, so a mutation
\* issued while the session's rollover batch is in flight takes effect after it: the
\* mutations below are taken once the batch has been committed.  A pointer that is
\* dragging a row cannot click or submit.
CanMutate(s) == ~rollover[s].active /\ draggedItemIndex[s] = NoIndex

\* a write that changed the collection makes a snapshot due on every listener
TodosWritten(remote) ==
  IF remote = remoteTodos THEN todosSub ELSE NotifyTodos(todosSub)

\* NextOrder with the maximum taken over every todo of the list, completed or not
NextOrderOfAll(list) ==
  LET maxOrder == IF Len(list) > 0
                  THEN Max({OrZero(list[i].order) : i \in 1..Len(list)})
                  ELSE 0
  IN maxOrder + 1

\* maxOrder + 1 of addTodo, from the todos state
NextOrder(list) ==
  LET activeTodos == SelectSeq(list, LAMBDA t : ~t.completed)
      maxOrder == IF Len(activeTodos) > 0
                  THEN Max({OrZero(activeTodos[i].order) : i \in 1..Len(activeTodos)})
                  ELSE 0
  IN maxOrder + 1

\* addTodo(text) with non-blank text; addDoc generates the document id
AddTodo(s, id) ==
  /\ userId[s] # NoUser
  /\ CanMutate(s)
  /\ ~remoteTodos[id].exists
  /\ LET doc == [exists |-> TRUE, completed |-> FALSE, fixed |-> FALSE,
                 lastDate |-> todayStr[s], order |-> NextOrder(todos[s])]
         remote == [remoteTodos EXCEPT ![id] = doc]
     IN /\ remoteTodos' = remote
        /\ todosSub' = TodosWritten(remote)
  /\ lastAdd' = [lastAdd EXCEPT ![s] =
        [called |-> TRUE, id |-> id,
         watch |-> {todos[s][i].id : i \in {j \in 1..Len(todos[s]) : ~todos[s][j].completed}}]]
  /\ UNCHANGED <<now, remoteTb, userId, todayStr, todos, rollover, draggedItemIndex,
                 timeBox, tbSub, tbOps>>
  /\ UNCHANGED extVars

\* the checkbox of row p: toggleTodo(todo.id, !todo.completed)
ToggleTodo(s, p) ==
  /\ CanMutate(s)
  /\ p \in 1..Len(todos[s])
  /\ LET t == todos[s][p]
         remote == [remoteTodos EXCEPT ![t.id].completed = ~t.completed]
     IN /\ remoteTodos[t.id].exists
        /\ remoteTodos' = remote
        /\ todosSub' = TodosWritten(remote)
  /\ UNCHANGED <<now, remoteTb, userId, todayStr, todos, rollover, draggedItemIndex,
                 timeBox, tbSub, tbOps, lastAdd>>
  /\ UNCHANGED extVars

\* the pin of row p: toggleFixedTodo(todo.id, !todo.fixed)
ToggleFixedTodo(s, p) ==
  /\ CanMutate(s)
  /\ p \in 1..Len(todos[s])
  /\ LET t == todos[s][p]
         remote == [remoteTodos EXCEPT ![t.id].fixed = ~t.fixed]
     IN /\ remoteTodos[t.id].exists
        /\ remoteTodos' = remote
        /\ todosSub' = TodosWritten(remote)
  /\ UNCHANGED <<now, remoteTb, userId, todayStr, todos, rollover, draggedItemIndex,
                 timeBox, tbSub, tbOps, lastAdd>>
  /\ UNCHANGED extVars

\* ------------------------------------------------------- addTodo(text)
\* the texts of the todo input: sequences of characters, " " is white space
TodoChars == {" ", "a"}
TodoTexts == {<<>>} \cup {<<c>> : c \in TodoChars} \cup {<<c, d>> : c \in TodoChars, d \in TodoChars}

\* String.prototype.trim: white space removed from both ends
RECURSIVE TrimStart(_)
TrimStart(text) ==
  IF text # <<>> /\ Head(text) = " " THEN TrimStart(Tail(text)) ELSE text

RECURSIVE TrimEnd(_)
TrimEnd(text) ==
  IF text # <<>> /\ text[Len(text)] = " "
  THEN TrimEnd(SubSeq(text, 1, Len(text) - 1)) ELSE text

Trim(text) == TrimEnd(TrimStart(text))

\* BlankText that only recognises the empty string
BlankTextEmptyOnly(text) == text = <<>>

\* !text.trim()
BlankText(text) == Trim(text) = <<>>

\* addTodo(text) for any text: the early return on blank text or absent identity,
\* otherwise the write of AddTodo
AddTodoText(s, text, id) ==
  IF BlankText(text) \/ userId[s] = NoUser
  THEN /\ lastOutcome' = [lastOutcome EXCEPT ![s] =
             [op |-> "addTodo", arg |-> text, result |-> "noop"]]
       /\ UNCHANGED <<now, remoteTodos, remoteTb, userId, todayStr, todos, todosSub,
                      rollover, draggedItemIndex, timeBox, tbSub, tbOps, lastAdd>>
       /\ UNCHANGED <<authUser, error, noteVars, fileVars, geomVars, domVars, inputVars>>
  ELSE AddTodo(s, id)

\* TodoBox.handleSubmit with the input holding text
HandleSubmit(s, text, id) ==
  /\ ~BlankText(text)
  /\ AddTodoText(s, text, id)

\* the identity handed to the hook becomes null: the effects close the listeners and
\* empty the caches
SignOut(s) ==
  /\ userId[s] # NoUser
  /\ userId' = [userId EXCEPT ![s] = NoUser]
  /\ todosSub' = [todosSub EXCEPT ![s] = TodosEffect(NoUser, todayStr[s])]
  /\ tbSub' = [tbSub EXCEPT ![s] = TimeBoxEffect(tbSub[s], NoUser, todayStr[s])]
  /\ notesSub' = [notesSub EXCEPT ![s] = CollectionEffect(NoUser)]
  /\ filesSub' = [filesSub EXCEPT ![s] = CollectionEffect(NoUser)]
  /\ todos' = [todos EXCEPT ![s] = <<>>]
  /\ timeBox' = [timeBox EXCEPT ![s] = NoTimeBox]
  /\ notes' = [notes EXCEPT ![s] = <<>>]
  /\ files' = [files EXCEPT ![s] = <<>>]
  /\ UNCHANGED <<now, remoteTodos, remoteTb, todayStr, rollover, draggedItemIndex,
                 tbOps, lastAdd>>
  /\ UNCHANGED <<authVars, serverTime, remoteNotes, remoteFiles, fileReads,
                 geomVars, domVars>>
  /\ InputEffect(timeBox')

\* ------------------------------------------------------------------ files
MaxUploadBytes == 750 * 1024
FileSizes == {0, MaxUploadBytes - 1, MaxUploadBytes, MaxUploadBytes + 1}

\* the server clock moves on
ServerTick ==
  /\ serverTime < MaxTime
  /\ serverTime' = serverTime + 1
  /\ UNCHANGED <<now, remoteTodos, remoteTb, userId, todayStr, todos, todosSub,
                 rollover, draggedItemIndex, timeBox, tbSub, tbOps, lastAdd>>
  /\ UNCHANGED <<authVars, remoteNotes, notes, notesSub, fileVars, geomVars, domVars, inputVars>>

\* { id: doc.id, ...doc.data() } as StoredFile
FileOf(id, d) == [id |-> id, size |-> d.size, createdAt |-> d.createdAt]

\* the documents of a files snapshot in document-id order (the query without orderBy)
RECURSIVE FileDocsUpTo(_, _)
FileDocsUpTo(remote, n) ==
  IF n = 0 THEN <<>>
  ELSE LET rest == FileDocsUpTo(remote, n - 1)
       IN IF remote[n].exists THEN Append(rest, FileOf(n, remote[n])) ELSE rest

\* filesData.sort((a, b) => bTime - aTime), a stable sort
InsertByCreatedDesc(x, s) ==
  LET later == {j \in 1..Len(s) : s[j].createdAt < x.createdAt}
      p == IF later = {} THEN Len(s) + 1 ELSE Min(later)
  IN SubSeq(s, 1, p - 1) \o <<x>> \o SubSeq(s, p, Len(s))

RECURSIVE SortByCreatedDesc(_)
SortByCreatedDesc(s) ==
  IF s = <<>> THEN <<>>
  ELSE InsertByCreatedDesc(s[Len(s)], SortByCreatedDesc(SubSeq(s, 1, Len(s) - 1)))

FallbackFiles(remote) == SortByCreatedDesc(FileDocsUpTo(remote, MaxFiles))

\* orderBy('createdAt', 'desc'): descending createdAt, ties in descending document id
RECURSIVE FileDocsDownFrom(_, _)
FileDocsDownFrom(remote, n) ==
  IF n > MaxFiles THEN <<>>
  ELSE LET rest == FileDocsDownFrom(remote, n + 1)
       IN IF remote[n].exists THEN Append(rest, FileOf(n, remote[n])) ELSE rest

OrderedFiles(remote) == SortByCreatedDesc(FileDocsDownFrom(remote, 1))

\* a change of the collection makes a snapshot due on every open listener
NotifyCollection(subs) ==
  [s \in Sessions |->
     IF subs[s].mode \in {"ordered", "fallback"} THEN [subs[s] EXCEPT !.pending = TRUE]
     ELSE subs[s]]

\* FileTooLarge with a limit of one mebibyte
FileTooLargeMiB(size) == size > 1024 * 1024

\* file.size > 750 * 1024
FileTooLarge(size) == size > MaxUploadBytes

\* addFile(file): nothing without identity, otherwise reader.readAsDataURL(file)
AddFile(s, size) ==
  /\ Cardinality(fileReads) < MaxFiles
  /\ IF userId[s] = NoUser
     THEN /\ lastOutcome' = [lastOutcome EXCEPT ![s] =
                [op |-> "addFile", arg |-> <<size>>, result |-> "noop"]]
          /\ UNCHANGED fileReads
     ELSE /\ fileReads' = fileReads \cup {[s |-> s, size |-> size]}
          /\ UNCHANGED lastOutcome
  /\ UNCHANGED <<now, remoteTodos, remoteTb, userId, todayStr, todos, todosSub,
                 rollover, draggedItemIndex, timeBox, tbSub, tbOps, lastAdd>>
  /\ UNCHANGED <<authUser, error, noteVars, remoteFiles, files, filesSub, geomVars, domVars,
                 inputVars>>

\* NoteList.handleFileChange with a chosen file of the given size
HandleFileChange(s, size) ==
  IF FileTooLarge(size)
  THEN /\ lastOutcome' = [lastOutcome EXCEPT ![s] =
             [op |-> "handleFileChange", arg |-> <<size>>, result |-> "rejected"]]
       /\ UNCHANGED <<now, remoteTodos, remoteTb, userId, todayStr, todos, todosSub,
                      rollover, draggedItemIndex, timeBox, tbSub, tbOps, lastAdd>>
       /\ UNCHANGED <<authUser, error, noteVars, fileVars, geomVars, domVars, inputVars>>
  ELSE AddFile(s, size)

\* reader.onload: addDoc of the file document; addDoc generates the document id
FileReaderLoad(r, id) ==
  /\ r \in fileReads
  /\ ~remoteFiles[id].exists
  /\ remoteFiles' = [remoteFiles EXCEPT ![id] =
        [exists |-> TRUE, size |-> r.size, createdAt |-> serverTime]]
  /\ fileReads' = fileReads \ {r}
  /\ filesSub' = NotifyCollection(filesSub)
  /\ UNCHANGED <<now, remoteTodos, remoteTb, userId, todayStr, todos, todosSub,
                 rollover, draggedItemIndex, timeBox, tbSub, tbOps, lastAdd>>
  /\ UNCHANGED <<authVars, noteVars, files, geomVars, domVars, inputVars>>

\* reader.onerror: the read is dropped with a console message
FileReaderError(r) ==
  /\ r \in fileReads
  /\ fileReads' = fileReads \ {r}
  /\ UNCHANGED <<now, remoteTodos, remoteTb, userId, todayStr, todos, todosSub,
                 rollover, draggedItemIndex, timeBox, tbSub, tbOps, lastAdd>>
  /\ UNCHANGED <<authVars, noteVars, remoteFiles, files, filesSub, geomVars, domVars, inputVars>>

\* a snapshot of the files listener replaces the files state
FilesSnapshot(s) ==
  /\ filesSub[s].pending
  /\ filesSub[s].mode \in {"ordered", "fallback"}
  /\ files' = [files EXCEPT ![s] =
        IF filesSub[s].mode = "ordered" THEN OrderedFiles(remoteFiles)
        ELSE FallbackFiles(remoteFiles)]
  /\ filesSub' = [filesSub EXCEPT ![s] = [@ EXCEPT !.pending = FALSE]]
  /\ UNCHANGED <<now, remoteTodos, remoteTb, userId, todayStr, todos, todosSub,
                 rollover, draggedItemIndex, timeBox, tbSub, tbOps, lastAdd>>
  /\ UNCHANGED <<authVars, noteVars, remoteFiles, fileReads, geomVars, domVars, inputVars>>

\* ---------------------------------------------------------- drag reorder
\* newTodos.splice(from, 1); newTodos.splice(to, 0, draggedItem)
MoveItem(list, from, to) ==
  LET item == list[from]
      rest == SubSeq(list, 1, from - 1) \o SubSeq(list, from + 1, Len(list))
  IN SubSeq(rest, 1, to - 1) \o <<item>> \o SubSeq(rest, to, Len(rest))

\* UpdateTodoOrderWrites with the 1-based position as order
UpdateTodoOrderWritesOneBased(reorderedTodos, remote) ==
  [id \in TodoIds |->
     IF \E i \in 1..Len(reorderedTodos) : reorderedTodos[i].id = id
     THEN LET i == CHOOSE i \in 1..Len(reorderedTodos) : reorderedTodos[i].id = id
          IN [remote[id] EXCEPT !.order = i]
     ELSE remote[id]]

\* UpdateTodoOrderWrites with the index added to the stored order
UpdateTodoOrderWritesShifted(reorderedTodos, remote) ==
  [id \in TodoIds |->
     IF \E i \in 1..Len(reorderedTodos) : reorderedTodos[i].id = id
     THEN LET i == CHOOSE i \in 1..Len(reorderedTodos) : reorderedTodos[i].id = id
          IN [remote[id] EXCEPT !.order = @ + i - 1]
     ELSE remote[id]]

\* updateTodoOrder: batch.update(todoRef, { order: index }) for every element, one commit
UpdateTodoOrderWrites(reorderedTodos, remote) ==
  [id \in TodoIds |->
     IF \E i \in 1..Len(reorderedTodos) : reorderedTodos[i].id = id
     THEN LET i == CHOOSE i \in 1..Len(reorderedTodos) : reorderedTodos[i].id = id
          IN [remote[id] EXCEPT !.order = i - 1]
     ELSE remote[id]]

HandleDragStart(s, p) ==
  /\ ~rollover[s].active
  /\ draggedItemIndex[s] = NoIndex
  /\ p \in 1..Len(todos[s])
  /\ draggedItemIndex' = [draggedItemIndex EXCEPT ![s] = p]
  /\ UNCHANGED <<now, remoteTodos, remoteTb, userId, todayStr, todos, todosSub, rollover,
                 timeBox, tbSub, tbOps, lastAdd>>
  /\ UNCHANGED extVars

HandleDragEnd(s) ==
  /\ draggedItemIndex[s] # NoIndex
  /\ draggedItemIndex' = [draggedItemIndex EXCEPT ![s] = NoIndex]
  /\ UNCHANGED <<now, remoteTodos, remoteTb, userId, todayStr, todos, todosSub, rollover,
                 timeBox, tbSub, tbOps, lastAdd>>
  /\ UNCHANGED extVars

\* the dragged row is over row p.  When the list has shrunk below the dragged index
\* the element is undefined, updateTodoOrder throws on todo.id and nothing is written.
HandleDragOver(s, p) ==
  /\ ~rollover[s].active
  /\ p \in 1..Len(todos[s])
  /\ draggedItemIndex[s] # NoIndex
  /\ draggedItemIndex[s] # p
  /\ draggedItemIndex' = [draggedItemIndex EXCEPT ![s] = p]
  /\ LET remote == IF draggedItemIndex[s] <= Len(todos[s])
                   THEN UpdateTodoOrderWrites(MoveItem(todos[s], draggedItemIndex[s], p),
                                              remoteTodos)
                   ELSE remoteTodos
     IN /\ remoteTodos' = remote
        /\ todosSub' = TodosWritten(remote)
  /\ UNCHANGED <<now, remoteTb, userId, todayStr, todos, rollover,
                 timeBox, tbSub, tbOps, lastAdd>>
  /\ UNCHANGED extVars

\* --------------------------------------------------------------- time-box
\* a write to a time-box document makes a snapshot due on the listeners of that document
NotifyTimeBox(d) ==
  [s \in Sessions |->
     IF d \in tbSub[s].open THEN [tbSub[s] EXCEPT !.pending = TRUE] ELSE tbSub[s]]

\* the snapshot handler of the listener on the document of date d: the stored
\* document, or a synthesized empty one when it does not exist
TimeBoxSnapshot(s, d) ==
  /\ tbSub[s].pending
  /\ d \in tbSub[s].open
  /\ timeBox' = [timeBox EXCEPT ![s] =
        IF remoteTb[d].exists
        THEN [null |-> FALSE, id |-> d, entries |-> remoteTb[d].entries]
        ELSE [null |-> FALSE, id |-> d, entries |-> NoEntries]]
  /\ tbSub' = [tbSub EXCEPT ![s] = [@ EXCEPT !.pending = FALSE]]
  /\ UNCHANGED <<now, remoteTodos, remoteTb, userId, todayStr, todos, todosSub, rollover,
                 draggedItemIndex, tbOps, lastAdd>>
  /\ UNCHANGED <<authVars, noteVars, fileVars, geomVars, domVars>>
  /\ InputEffect(timeBox')

\* updateTimeBoxEntry, up to the awaited getDoc.  OptimizedInput calls it on blur when
\* the text differs from the displayed value.
UpdateTimeBoxEntryRead(s, h, sl, text) ==
  /\ userId[s] # NoUser
  /\ Cardinality(tbOps) < MaxTbOps
  /\ text # SlotValue(timeBox[s], h, sl)
  /\ tbOps' = tbOps \cup
        {[s |-> s, hour |-> h, slot |-> sl, text |-> text, date |-> todayStr[s],
          data |-> remoteTb[todayStr[s]]]}
  /\ UNCHANGED <<now, remoteTodos, remoteTb, userId, todayStr, todos, todosSub, rollover,
                 draggedItemIndex, timeBox, tbSub, lastAdd>>
  /\ UNCHANGED extVars

\* { ...data.entries, [hourKey]: { ...entry, [`slot${slot}`]: text } }
NewEntries(op) ==
  LET read == IF op.data.exists THEN op.data.entries ELSE NoEntries
      entry == IF read[op.hour].present THEN read[op.hour]
               ELSE [present |-> TRUE, slot1 |-> "", slot2 |-> ""]
  IN [read EXCEPT ![op.hour] =
        IF op.slot = 1 THEN [entry EXCEPT !.slot1 = op.text]
        ELSE [entry EXCEPT !.slot2 = op.text]]

\* setDoc(docRef, { entries }, { merge: true }): every field given is written, every
\* field not given is kept; the document is created when it does not exist
MergeEntries(stored, given) ==
  LET old == IF stored.exists THEN stored.entries ELSE NoEntries
  IN [exists |-> TRUE,
      entries |-> [h \in Hours |-> IF given[h].present THEN given[h] ELSE old[h]]]

\* updateTimeBoxEntry, the setDoc after the getDoc has resolved
UpdateTimeBoxEntryWrite(op) ==
  /\ op \in tbOps
  /\ remoteTb' = [remoteTb EXCEPT ![op.date] = MergeEntries(@, NewEntries(op))]
  /\ tbOps' = tbOps \ {op}
  /\ tbSub' = NotifyTimeBox(op.date)
  /\ UNCHANGED <<now, remoteTodos, userId, todayStr, todos, todosSub, rollover,
                 draggedItemIndex, timeBox, lastAdd>>
  /\ UNCHANGED extVars

\* ------------------------------------------------------ window focus
\* parseInt(style.zIndex || '10', 10)
ParseZIndex(z) == IF z = UnsetZ THEN BaseZ ELSE z

\* the loop that finds the highest z-index among the windows of the document
MaxZIndex(zi) ==
  Max({BaseZ} \cup {ParseZIndex(zi[w]) : w \in {v \in Windows : zi[v] # NotRendered}})

\* FocusZIndex without the step above the highest z-index
FocusZIndexNoStep(maxZIndex) == Max({maxZIndex, BaseZ})

\* Math.max(maxZIndex + 1, 50)
FocusZIndex(maxZIndex) == Max({maxZIndex + 1, RaiseZ})

\* setWindowFocus(targetId): every window of the document is reset to '10', then the
\* target, when it has an element, is raised
SetWindowFocus(targetId) ==
  /\ FocusZIndex(MaxZIndex(zIndex)) <= MaxZ
  /\ zIndex' = [w \in Windows |->
        IF zIndex[w] = NotRendered THEN NotRendered
        ELSE IF w = targetId THEN FocusZIndex(MaxZIndex(zIndex))
        ELSE BaseZ]
  /\ UNCHANGED <<now, remoteTodos, remoteTb, userId, todayStr, todos, todosSub,
                 rollover, draggedItemIndex, timeBox, tbSub, tbOps, lastAdd>>
  /\ UNCHANGED <<authVars, noteVars, fileVars, geomVars, drag, visual, inputVars>>

\* a window is rendered (a note becomes active, a box is opened): a new element without
\* inline z-index
RenderWindow(w) ==
  /\ zIndex[w] = NotRendered
  /\ zIndex' = [zIndex EXCEPT ![w] = UnsetZ]
  /\ UNCHANGED <<now, remoteTodos, remoteTb, userId, todayStr, todos, todosSub,
                 rollover, draggedItemIndex, timeBox, tbSub, tbOps, lastAdd>>
  /\ UNCHANGED <<authVars, noteVars, fileVars, geomVars, drag, visual, inputVars>>

\* a window is removed from the document (a note is minimized or archived, a box closed)
RemoveWindow(w) ==
  /\ zIndex[w] # NotRendered
  /\ zIndex' = [zIndex EXCEPT ![w] = NotRendered]
  /\ UNCHANGED <<now, remoteTodos, remoteTb, userId, todayStr, todos, todosSub,
                 rollover, draggedItemIndex, timeBox, tbSub, tbOps, lastAdd>>
  /\ UNCHANGED <<authVars, noteVars, fileVars, geomVars, drag, visual, inputVars>>


\* ------------------------------------------------------------------ notes
\* data-note-id of the card of a note
NoteWindow(id) == IF id = 1 THEN "n1" ELSE "n2"

\* { id: doc.id, ...doc.data() } as Note
NoteOf(id, d) ==
  [id |-> id, status |-> d.status, lastEdited |-> d.lastEdited,
   position |-> d.position, size |-> d.size, content |-> d.content, color |-> d.color]

\* the documents of a notes snapshot in document-id order (the query without orderBy)
RECURSIVE NoteDocsUpTo(_, _)
NoteDocsUpTo(remote, n) ==
  IF n = 0 THEN <<>>
  ELSE LET rest == NoteDocsUpTo(remote, n - 1)
       IN IF remote[n].exists THEN Append(rest, NoteOf(n, remote[n])) ELSE rest

\* notesData.sort((a, b) => bTime - aTime), a stable sort
InsertByEditedDesc(x, s) ==
  LET later == {j \in 1..Len(s) : s[j].lastEdited < x.lastEdited}
      p == IF later = {} THEN Len(s) + 1 ELSE Min(later)
  IN SubSeq(s, 1, p - 1) \o <<x>> \o SubSeq(s, p, Len(s))

RECURSIVE SortByEditedDesc(_)
SortByEditedDesc(s) ==
  IF s = <<>> THEN <<>>
  ELSE InsertByEditedDesc(s[Len(s)], SortByEditedDesc(SubSeq(s, 1, Len(s) - 1)))

FallbackNotes(remote) == SortByEditedDesc(NoteDocsUpTo(remote, MaxNotes))

\* orderBy('lastEdited', 'desc'): descending lastEdited, ties in descending document id
OrderedNotes(remote) ==
  LET docs == NoteDocsUpTo(remote, MaxNotes)
  IN SortByEditedDesc([i \in 1..Len(docs) |-> docs[Len(docs) + 1 - i]])

\* NOTE_COLORS, two of them
NoteColors == {"amber", "sky"}

\* addNote(): nothing without identity; addDoc generates the document id, the position
\* gets a random offset and the color is drawn at random
AddNote(s, id, offset) ==
  /\ IF userId[s] = NoUser
     THEN /\ lastOutcome' = [lastOutcome EXCEPT ![s] =
                [op |-> "addNote", arg |-> <<>>, result |-> "noop"]]
          /\ UNCHANGED <<remoteNotes, notesSub>>
     ELSE /\ ~remoteNotes[id].exists
          /\ \E color \in NoteColors :
               remoteNotes' = [remoteNotes EXCEPT ![id] =
                 [exists |-> TRUE, status |-> "active", lastEdited |-> serverTime,
                  position |-> [x |-> 100 + offset, y |-> 100 + offset],
                  size |-> [width |-> 300, height |-> 300],
                  content |-> <<>>, color |-> color]]
          /\ notesSub' = NotifyCollection(notesSub)
          /\ UNCHANGED lastOutcome
  /\ UNCHANGED <<now, remoteTodos, remoteTb, userId, todayStr, todos, todosSub,
                 rollover, draggedItemIndex, timeBox, tbSub, tbOps, lastAdd>>
  /\ UNCHANGED <<authUser, error, serverTime, notes, fileVars, geomVars, domVars, inputVars>>

\* the re-render of the note cards: React sets left/top/width/height of a card whose
\* note is new or whose position or size differs from the last render
RenderNotes(before, after) ==
  [w \in Windows |->
     IF \E i \in 1..Len(after) :
          /\ NoteWindow(after[i].id) = w
          /\ ~\E j \in 1..Len(before) :
                /\ before[j].id = after[i].id
                /\ before[j].position = after[i].position
                /\ before[j].size = after[i].size
     THEN LET i == CHOOSE i \in 1..Len(after) : NoteWindow(after[i].id) = w
          IN [x |-> after[i].position.x, y |-> after[i].position.y,
              width |-> after[i].size.width, height |-> after[i].size.height]
     ELSE visual[w]]

\* a snapshot of the notes listener replaces the notes state and clears the error
NotesSnapshot(s) ==
  /\ notesSub[s].pending
  /\ notesSub[s].mode \in {"ordered", "fallback"}
  /\ notes' = [notes EXCEPT ![s] =
        IF notesSub[s].mode = "ordered" THEN OrderedNotes(remoteNotes)
        ELSE FallbackNotes(remoteNotes)]
  /\ notesSub' = [notesSub EXCEPT ![s] = [@ EXCEPT !.pending = FALSE]]
  /\ error' = [error EXCEPT ![s] = NoError]
  /\ visual' = RenderNotes(notes[s], notes'[s])
  /\ UNCHANGED <<now, remoteTodos, remoteTb, userId, todayStr, todos, todosSub,
                 rollover, draggedItemIndex, timeBox, tbSub, tbOps, lastAdd>>
  /\ UNCHANGED <<authUser, lastOutcome, serverTime, remoteNotes, fileVars, geomVars,
                 zIndex, drag, inputVars>>


\* ---------------------------------------------------- drag and resize
MaxMove == 1
MIN_NOTE_WIDTH == 200
MIN_NOTE_HEIGHT == 200
MIN_TODOBOX_HEIGHT == 350

DragKinds == {"note", "resize", "time", "todo", "todoResize"}
ResizeKinds == {"resize", "todoResize"}
PointerDeltas == {[dx |-> k, dy |-> k] : k \in (0 - MaxMove)..MaxMove}

\* findDragElement(type, id)
FindDragElement(type, id) ==
  IF type \in {"note", "resize"} THEN NoteWindow(id)
  ELSE IF type = "time" THEN "timebox" ELSE "todobox"

\* DragEndCallback with the position callbacks wired to the resize kinds too
DragEndCallbackPositionOnly(kind) ==
  CASE kind \in {"note", "resize"} -> "updateNotePosition"
    [] kind = "time" -> "updateTimeBoxPosition"
    [] kind \in {"todo", "todoResize"} -> "updateTodoPosition"

\* the callbacks App hands to useDrag
DragEndCallback(kind) ==
  CASE kind = "note" -> "updateNotePosition"
    [] kind = "resize" -> "updateNoteSize"
    [] kind = "time" -> "updateTimeBoxPosition"
    [] kind = "todo" -> "updateTodoPosition"
    [] kind = "todoResize" -> "updateTodoBoxSize"

\* the argument a callback takes, read back from the element's geometry
CallbackValue(callback, g) ==
  CASE callback = "updateNoteSize" -> [width |-> g.width, height |-> g.height]
    [] callback = "updateTodoBoxSize" -> [height |-> g.height]
    [] OTHER -> [x |-> g.x, y |-> g.y]

\* NotesAfter whose position update refreshes lastEdited as well
NotesAfterPositionRefreshes(callback, id, value) ==
  IF ~remoteNotes[id].exists THEN remoteNotes
  ELSE CASE callback = "updateNotePosition" ->
              [remoteNotes EXCEPT ![id].position = value, ![id].lastEdited = serverTime]
         [] callback = "updateNoteSize" ->
              [remoteNotes EXCEPT ![id].size = value, ![id].lastEdited = serverTime]
         [] callback = "updateNoteContent" ->
              [remoteNotes EXCEPT ![id].content = value, ![id].lastEdited = serverTime]
         [] callback = "updateNoteColor" ->
              [remoteNotes EXCEPT ![id].color = value, ![id].lastEdited = serverTime]
         [] callback = "updateNoteStatus" ->
              [remoteNotes EXCEPT ![id].status = value, ![id].lastEdited = serverTime]
         [] OTHER -> remoteNotes

\* updateNoteContent / updateNotePosition / updateNoteSize / updateNoteColor /
\* updateNoteStatus / bringToFront: updateDoc of one note document
\* (an update of a document that does not exist fails and is caught)
NotesAfter(callback, id, value) ==
  IF ~remoteNotes[id].exists THEN remoteNotes
  ELSE CASE callback = "updateNotePosition" ->
              [remoteNotes EXCEPT ![id].position = value]
         [] callback = "updateNoteSize" ->
              [remoteNotes EXCEPT ![id].size = value, ![id].lastEdited = serverTime]
         [] callback = "bringToFront" ->
              [remoteNotes EXCEPT ![id].status = "active", ![id].lastEdited = serverTime]
         [] callback = "updateNoteContent" ->
              [remoteNotes EXCEPT ![id].content = value, ![id].lastEdited = serverTime]
         [] callback = "updateNoteColor" ->
              [remoteNotes EXCEPT ![id].color = value, ![id].lastEdited = serverTime]
         [] callback = "updateNoteStatus" ->
              [remoteNotes EXCEPT ![id].status = value, ![id].lastEdited = serverTime]
         [] OTHER -> remoteNotes

\* updateTimeBoxPosition: merge-write of position into today's time-box document
TbPosAfter(s, callback, value) ==
  IF callback = "updateTimeBoxPosition" /\ userId[s] # NoUser
  THEN [remoteTbPos EXCEPT ![todayStr[s]] = [set |-> TRUE, x |-> value.x, y |-> value.y]]
  ELSE remoteTbPos

\* SettingsAfter without the early return on an absent identity
SettingsAfterUnguarded(s, callback, value) ==
  CASE callback = "updateTodoPosition" ->
         [remoteSettings EXCEPT !.position = [set |-> TRUE, x |-> value.x, y |-> value.y]]
    [] callback = "updateTodoBoxSize" ->
         [remoteSettings EXCEPT !.size = [set |-> TRUE, height |-> value.height]]
    [] OTHER -> remoteSettings

\* updateTodoPosition / updateTodoBoxSize: merge-writes into the settings document
SettingsAfter(s, callback, value) ==
  IF userId[s] = NoUser THEN remoteSettings
  ELSE CASE callback = "updateTodoPosition" ->
              [remoteSettings EXCEPT !.position = [set |-> TRUE, x |-> value.x, y |-> value.y]]
         [] callback = "updateTodoBoxSize" ->
              [remoteSettings EXCEPT !.size = [set |-> TRUE, height |-> value.height]]
         [] OTHER -> remoteSettings

\* StartSession that begins a session whatever the state of the controller
StartSessionAlways(d, kind, id) ==
  [state |-> "dragging", kind |-> kind, id |-> id,
   target |-> FindDragElement(kind, id),
   start |-> visual[FindDragElement(kind, id)], committed |-> <<>>,
   listeners |-> d.listeners + 1, starts |-> 1]

\* the controller on start(kind, entityId): the transition is idle -> dragging, the
\* pointer-move and pointer-release listeners are added to the document; in the state
\* dragging there is no transition (starts remembers that a start was made during the
\* session)
StartSession(d, kind, id) ==
  IF d.state = "idle"
  THEN [state |-> "dragging", kind |-> kind, id |-> id,
        target |-> FindDragElement(kind, id),
        start |-> visual[FindDragElement(kind, id)], committed |-> <<>>,
        listeners |-> d.listeners + 1, starts |-> 1]
  ELSE [d EXCEPT !.starts = 2]

\* start(kind, entityId): idle -> dragging; the target's geometry is captured and
\* "bring to front" is notified for the kinds that name a note
StartDragging(s, kind, id) ==
  /\ drag.state = "idle"
  /\ IF kind \in {"note", "resize"}
     THEN \E i \in 1..Len(notes[s]) : notes[s][i].id = id /\ notes[s][i].status = "active"
     ELSE id = 1
  /\ drag' = StartSession(drag, kind, id)
  /\ LET remote == IF kind \in {"note", "resize"}
                   THEN NotesAfter("bringToFront", id, <<>>) ELSE remoteNotes
     IN /\ remoteNotes' = remote
        /\ notesSub' = IF remote = remoteNotes THEN notesSub ELSE NotifyCollection(notesSub)
  /\ UNCHANGED <<now, remoteTodos, remoteTb, userId, todayStr, todos, todosSub,
                 rollover, draggedItemIndex, timeBox, tbSub, tbOps, lastAdd>>
  /\ UNCHANGED <<authVars, serverTime, notes, fileVars, geomVars, zIndex, visual, inputVars>>

\* onMouseDown / onResizeStart of a note card, the time-box or the todo-box, whatever
\* the controller is doing: for a note App calls bringToFront and setWindowFocus, then
\* startDragging
MouseDown(s, kind, id) ==
  /\ IF kind \in {"note", "resize"}
     THEN /\ \E i \in 1..Len(notes[s]) : notes[s][i].id = id /\ notes[s][i].status = "active"
          /\ FocusZIndex(MaxZIndex(zIndex)) <= MaxZ
     ELSE id = 1
  /\ drag' = StartSession(drag, kind, id)
  /\ LET remote == IF kind \in {"note", "resize"}
                   THEN NotesAfter("bringToFront", id, <<>>) ELSE remoteNotes
     IN /\ remoteNotes' = remote
        /\ notesSub' = IF remote = remoteNotes THEN notesSub ELSE NotifyCollection(notesSub)
  /\ zIndex' = IF kind \in {"note", "resize"}
               THEN [w \in Windows |->
                       IF zIndex[w] = NotRendered THEN NotRendered
                       ELSE IF w = NoteWindow(id) THEN FocusZIndex(MaxZIndex(zIndex))
                       ELSE BaseZ]
               ELSE zIndex
  /\ UNCHANGED <<now, remoteTodos, remoteTb, userId, todayStr, todos, todosSub,
                 rollover, draggedItemIndex, timeBox, tbSub, tbOps, lastAdd>>
  /\ UNCHANGED <<authVars, serverTime, notes, fileVars, geomVars, visual, inputVars>>

\* the geometry shown while the pointer is delta away from where the drag started
DraggedGeometry(kind, start, delta) ==
  CASE kind = "resize" ->
         [start EXCEPT !.width = Max({MIN_NOTE_WIDTH, start.width + delta.dx}),
                       !.height = Max({MIN_NOTE_HEIGHT, start.height + delta.dy})]
    [] kind = "todoResize" ->
         [start EXCEPT !.height = Max({MIN_TODOBOX_HEIGHT, start.height + delta.dy})]
    [] OTHER -> [start EXCEPT !.x = start.x + delta.dx, !.y = start.y + delta.dy]

\* the model follows a window while it stays within MaxMove of where it is first shown,
\* in either direction
InRange(w, g) ==
  /\ g.x - InitialVisual[w].x \in (0 - MaxMove)..MaxMove
  /\ g.y - InitialVisual[w].y \in (0 - MaxMove)..MaxMove
  /\ g.width - InitialVisual[w].width \in (0 - MaxMove)..MaxMove
  /\ g.height - InitialVisual[w].height \in (0 - MaxMove)..MaxMove

\* pointer-move while dragging: a visual update only
PointerMove(delta) ==
  /\ drag.state = "dragging"
  /\ InRange(drag.target, DraggedGeometry(drag.kind, drag.start, delta))
  /\ visual' = [visual EXCEPT ![drag.target] = DraggedGeometry(drag.kind, drag.start, delta)]
  /\ UNCHANGED <<now, remoteTodos, remoteTb, userId, todayStr, todos, todosSub,
                 rollover, draggedItemIndex, timeBox, tbSub, tbOps, lastAdd>>
  /\ UNCHANGED <<authVars, noteVars, fileVars, geomVars, zIndex, drag, inputVars>>

\* pointer-release: the callback of the kind is called once with the geometry read back
\* from the element, the controller is idle again
PointerRelease(s) ==
  /\ drag.state = "dragging"
  /\ LET callback == DragEndCallback(drag.kind)
         value == CallbackValue(callback, visual[drag.target])
         remote == NotesAfter(callback, drag.id, value)
     IN /\ drag' = [state |-> "idle",
                    committed |-> <<[kind |-> drag.kind, callback |-> callback,
                                     id |-> drag.id, value |-> value]>>,
                    listeners |-> drag.listeners - 1]
        /\ remoteNotes' = remote
        /\ notesSub' = IF remote = remoteNotes THEN notesSub ELSE NotifyCollection(notesSub)
        /\ remoteTbPos' = TbPosAfter(s, callback, value)
        /\ remoteSettings' = SettingsAfter(s, callback, value)
  /\ UNCHANGED <<now, remoteTodos, remoteTb, userId, todayStr, todos, todosSub,
                 rollover, draggedItemIndex, timeBox, tbSub, tbOps, lastAdd>>
  /\ UNCHANGED <<authVars, serverTime, notes, fileVars, zIndex, visual, inputVars>>


\* ---------------------------------------------------------------- failures
\* FirestoreError codes of a failed write; "not-found" stands for every other code
ErrorCodes == {"permission-denied", "unavailable", "not-found"}

\* the mutation operations whose remote write is inside a try block
CaughtOps ==
  {"addTodo", "toggleTodo", "toggleFixedTodo", "deleteTodo", "updateTodoPosition",
   "updateTodoBoxSize", "updateTimeBoxEntry", "updateTimeBoxPosition",
   "updateTimeBoxColors", "updateNoteContent", "updateNotePosition", "updateNoteSize",
   "updateNoteColor", "updateNoteStatus", "deleteNote", "bringToFront", "addFile",
   "deleteFile"}

MutationOps == CaughtOps \cup {"addNote", "updateTodoOrder"}

\* the operations that return before their write when userId is absent
IdentityOps ==
  {"addTodo", "updateTodoPosition", "updateTodoBoxSize", "updateTimeBoxEntry",
   "updateTimeBoxPosition", "updateTimeBoxColors", "addNote", "addFile"}

\* handleFirestoreError(error, operation): console messages only
HandleFirestoreError(err, code) == err

\* how a rejected write leaves the operation: addNote rethrows what it caught,
\* updateTodoOrder has no try block
FailureOutcome(op) ==
  IF op \in CaughtOps THEN "caught" ELSE "thrown"

\* the remote write of a mutation operation is rejected with the given code
MutationFails(s, op, code) ==
  /\ op \in IdentityOps => userId[s] # NoUser
  /\ op = "updateTodoOrder" => draggedItemIndex[s] # NoIndex
  /\ lastOutcome' = [lastOutcome EXCEPT ![s] =
        [op |-> op, arg |-> <<code>>, result |-> FailureOutcome(op)]]
  /\ error' = [error EXCEPT ![s] =
        IF op = "updateTodoOrder" THEN @ ELSE HandleFirestoreError(@, code)]
  /\ UNCHANGED <<now, remoteTodos, remoteTb, userId, todayStr, todos, todosSub,
                 rollover, draggedItemIndex, timeBox, tbSub, tbOps, lastAdd>>
  /\ UNCHANGED <<authUser, noteVars, fileVars, geomVars, domVars, inputVars>>

\* the errors a listener can end with: the code and whether the message mentions 'index'
SubErrors ==
  {[code |-> c, index |-> b] :
     c \in {"failed-precondition", "permission-denied", "unavailable"}, b \in BOOLEAN}

\* IsIndexError testing for the wrong code
IsIndexErrorUnavailable(err) == err.code = "unavailable"

\* error.code === 'failed-precondition' || error.message.includes('index')
IsIndexError(err) == err.code = "failed-precondition" \/ err.index

\* the error handlers of the notes and of the files listener: an index error on the
\* ordered query opens the fallback listener; any other error ends the listener, and the
\* notes handlers then set the error message
CollectionSubError(s, coll, err) ==
  /\ coll \in {"notes", "files"}
  /\ LET sub == IF coll = "notes" THEN notesSub[s] ELSE filesSub[s]
         recover == sub.mode = "ordered" /\ IsIndexError(err)
         after == IF recover THEN [mode |-> "fallback", pending |-> TRUE]
                  ELSE [mode |-> "failed", pending |-> FALSE]
     IN /\ sub.mode \in {"ordered", "fallback"}
        /\ notesSub' = IF coll = "notes" THEN [notesSub EXCEPT ![s] = after] ELSE notesSub
        /\ filesSub' = IF coll = "files" THEN [filesSub EXCEPT ![s] = after] ELSE filesSub
        /\ error' = [error EXCEPT ![s] =
              IF coll = "notes" /\ ~recover THEN "notes-load-error" ELSE @]
  /\ UNCHANGED <<now, remoteTodos, remoteTb, userId, todayStr, todos, todosSub,
                 rollover, draggedItemIndex, timeBox, tbSub, tbOps, lastAdd>>
  /\ UNCHANGED <<authUser, lastOutcome, serverTime, remoteNotes, notes, remoteFiles, files,
                 fileReads, geomVars, domVars, inputVars>>


\* -------------------------------------------------------------------- App
\* the userId App hands to the hook: useFirestoreNotes() is called without an argument,
\* whatever useAuth reports
AppHookUserId(user) == NoUser

\* onAuthStateChanged: useAuth sets user, App renders again and calls the hook, whose
\* effects with userId in their deps run when that argument changed; without a user App
\* renders the login screen and no window
AuthStateChanged(s, user) ==
  /\ user # authUser[s]
  /\ authUser' = [authUser EXCEPT ![s] = user]
  /\ zIndex' = IF user = NoUser THEN InitialZIndex ELSE zIndex
  /\ LET uid == AppHookUserId(user)
     IN IF uid = userId[s]
        THEN UNCHANGED <<userId, todosSub, tbSub, notesSub, filesSub, todos, timeBox,
                         notes, files>>
        ELSE /\ userId' = [userId EXCEPT ![s] = uid]
             /\ todosSub' = [todosSub EXCEPT ![s] = TodosEffect(uid, todayStr[s])]
             /\ tbSub' = [tbSub EXCEPT ![s] = TimeBoxEffect(tbSub[s], uid, todayStr[s])]
             /\ notesSub' = [notesSub EXCEPT ![s] = CollectionEffect(uid)]
             /\ filesSub' = [filesSub EXCEPT ![s] = CollectionEffect(uid)]
             /\ todos' = [todos EXCEPT ![s] = IF uid = NoUser THEN <<>> ELSE @]
             /\ timeBox' = [timeBox EXCEPT ![s] = IF uid = NoUser THEN NoTimeBox ELSE @]
             /\ notes' = [notes EXCEPT ![s] = IF uid = NoUser THEN <<>> ELSE @]
             /\ files' = [files EXCEPT ![s] = IF uid = NoUser THEN <<>> ELSE @]
  /\ UNCHANGED <<now, remoteTodos, remoteTb, todayStr, rollover, draggedItemIndex,
                 tbOps, lastAdd>>
  /\ UNCHANGED <<error, lastOutcome, serverTime, remoteNotes, remoteFiles, fileReads,
                 geomVars, drag, visual>>
  /\ InputEffect(timeBox')

\* the buttons of the action menu that open and close the time-box and the todo-box
ToggleBox(s, w) ==
  /\ authUser[s] # NoUser
  /\ w \in {"timebox", "todobox"}
  /\ IF zIndex[w] = NotRendered THEN RenderWindow(w) ELSE RemoveWindow(w)


\* --------------------------------------------------------- absent identity
\* updateTimeBoxEntry(hour, slot, text) for any identity: the early return without
\* identity, otherwise the read of UpdateTimeBoxEntryRead
UpdateTimeBoxEntry(s, h, sl, text) ==
  IF userId[s] = NoUser
  THEN /\ lastOutcome' = [lastOutcome EXCEPT ![s] =
             [op |-> "updateTimeBoxEntry", arg |-> <<>>, result |-> "noop"]]
       /\ UNCHANGED <<now, remoteTodos, remoteTb, userId, todayStr, todos, todosSub,
                      rollover, draggedItemIndex, timeBox, tbSub, tbOps, lastAdd>>
       /\ UNCHANGED <<authUser, error, noteVars, fileVars, geomVars, domVars, inputVars>>
  ELSE UpdateTimeBoxEntryRead(s, h, sl, text)

\* the positions and sizes the hook is called with
BoxGeometries ==
  {[x |-> 50, y |-> 150, width |-> 0, height |-> 500],
   [x |-> 51, y |-> 151, width |-> 0, height |-> 501]}

\* updateTodoPosition(pos), updateTodoBoxSize(size), updateTimeBoxPosition(pos) called
\* on the hook: the early return without identity, otherwise the merge-write
UpdateBoxGeometry(s, callback, g) ==
  /\ callback \in {"updateTodoPosition", "updateTodoBoxSize", "updateTimeBoxPosition"}
  /\ remoteTbPos' = TbPosAfter(s, callback, CallbackValue(callback, g))
  /\ remoteSettings' = SettingsAfter(s, callback, CallbackValue(callback, g))
  /\ lastOutcome' = IF userId[s] = NoUser
                    THEN [lastOutcome EXCEPT ![s] =
                            [op |-> callback, arg |-> <<>>, result |-> "noop"]]
                    ELSE lastOutcome
  /\ UNCHANGED <<now, remoteTodos, remoteTb, userId, todayStr, todos, todosSub,
                 rollover, draggedItemIndex, timeBox, tbSub, tbOps, lastAdd>>
  /\ UNCHANGED <<authUser, error, noteVars, fileVars, domVars, inputVars>>

\* a write that a call made with an identity has not yet sent: the FileReader of addFile
\* is still reading, updateTimeBoxEntry awaits its getDoc, the rollover batch is not
\* committed
WriteInFlight ==
  \/ fileReads # {}
  \/ tbOps # {}
  \/ \E s \in Sessions : rollover[s].active


\* ------------------------------------------------------------ note updates
NoteContents == {<<>>, <<" ">>, <<"a">>}
NoteStatuses == {"active", "minimized", "archived"}

\* the arguments the five update operations are called with
NoteUpdateValues(callback) ==
  CASE callback = "updateNoteContent" -> NoteContents
    [] callback = "updateNotePosition" -> {[x |-> 100, y |-> 100], [x |-> 101, y |-> 101]}
    [] callback = "updateNoteSize" ->
         {[width |-> 300, height |-> 300], [width |-> 301, height |-> 301]}
    [] callback = "updateNoteColor" -> NoteColors
    [] callback = "updateNoteStatus" -> NoteStatuses
    [] OTHER -> {<<>>}

NoteUpdateOps ==
  {"updateNoteContent", "updateNotePosition", "updateNoteSize", "updateNoteColor",
   "updateNoteStatus"}

\* one of the update operations of a note, or bringToFront, called on the hook: a
\* single updateDoc (none of them looks at userId)
UpdateNote(callback, id, value) ==
  /\ remoteNotes[id].exists
  /\ remoteNotes' = NotesAfter(callback, id, value)
  /\ notesSub' = NotifyCollection(notesSub)
  /\ UNCHANGED <<now, remoteTodos, remoteTb, userId, todayStr, todos, todosSub,
                 rollover, draggedItemIndex, timeBox, tbSub, tbOps, lastAdd>>
  /\ UNCHANGED <<authVars, serverTime, notes, fileVars, geomVars, domVars, inputVars>>

\* deleteNote(id): deleteDoc, which succeeds on a missing document too
DeleteNote(id) ==
  /\ remoteNotes' = [remoteNotes EXCEPT ![id] = NoDoc]
  /\ notesSub' = NotifyCollection(notesSub)
  /\ UNCHANGED <<now, remoteTodos, remoteTb, userId, todayStr, todos, todosSub,
                 rollover, draggedItemIndex, timeBox, tbSub, tbOps, lastAdd>>
  /\ UNCHANGED <<authVars, serverTime, notes, fileVars, geomVars, domVars, inputVars>>

\* the ids of the notes in the order of the listener's query
NoteOrder(remote) ==
  [i \in 1..Len(OrderedNotes(remote)) |-> OrderedNotes(remote)[i].id]


\* ------------------------------------------------------------ the list view
ListTabs == {"recent", "saved", "files"}

\* NoteList.filteredNotes: notes without content are left out, then the tab decides
FilteredNotes(list, activeTab) ==
  SelectSeq(list, LAMBDA note :
    /\ ~BlankText(note.content)
    /\ \/ activeTab = "recent" /\ note.status \in {"active", "minimized"}
       \/ activeTab = "saved" /\ note.status = "archived")

\* NoteList.handleNoteClick on a listed note: App.handleNoteSelect calls bringToFront
\* and setWindowFocus with the note id
HandleNoteClick(s, activeTab, id) ==
  /\ activeTab \in {"recent", "saved"}
  /\ \E i \in 1..Len(FilteredNotes(notes[s], activeTab)) :
       FilteredNotes(notes[s], activeTab)[i].id = id
  /\ FocusZIndex(MaxZIndex(zIndex)) <= MaxZ
  /\ remoteNotes' = NotesAfter("bringToFront", id, <<>>)
  /\ notesSub' = NotifyCollection(notesSub)
  /\ zIndex' = [w \in Windows |->
        IF zIndex[w] = NotRendered THEN NotRendered
        ELSE IF w = NoteWindow(id) THEN FocusZIndex(MaxZIndex(zIndex))
        ELSE BaseZ]
  /\ UNCHANGED <<now, remoteTodos, remoteTb, userId, todayStr, todos, todosSub,
                 rollover, draggedItemIndex, timeBox, tbSub, tbOps, lastAdd>>
  /\ UNCHANGED <<authVars, serverTime, notes, fileVars, geomVars, drag, visual, inputVars>>


\* the check box of row p clicked once the calendar has reached the last date of the
\* model: whatever is completed was completed after the date advanced, and the date does
\* not advance again
ToggleTodoAfterAdvance(s, p) ==
  /\ now = MaxDay
  /\ ToggleTodo(s, p)


\* ------------------------------------------------------------ slot input
\* onChange of the input: isInternalChange.current = true; setVal(e.target.value)
OnChange(s, text) ==
  /\ text # val[s]
  /\ val' = [val EXCEPT ![s] = text]
  /\ isInternalChange' = [isInternalChange EXCEPT ![s] = TRUE]
  /\ UNCHANGED <<now, remoteTodos, remoteTb, userId, todayStr, todos, todosSub, rollover,
                 draggedItemIndex, timeBox, tbSub, tbOps, lastAdd>>
  /\ UNCHANGED <<authVars, noteVars, fileVars, geomVars, domVars>>

\* onBlur of the input: if (val !== initialValue) onUpdate(val)
OnBlur(s) ==
  IF val[s] # InitialValue(timeBox[s])
  THEN UpdateTimeBoxEntry(s, InputHour, InputSlot, val[s])
  ELSE UNCHANGED vars

\* the value of the followed slot in the stored document of date d
RemoteValue(d) ==
  IF remoteTb[d].exists
  THEN SlotValue([null |-> FALSE, id |-> d, entries |-> remoteTb[d].entries],
                 InputHour, InputSlot)
  ELSE ""


\* ---------------------------------------------------------- specifications
\* one session, the to-do list with rollover, fallback, toggles and reorder
Next ==
  \/ AdvanceDate
  \/ \E s \in {"s1"} :
       \/ SignIn(s)
       \/ TimerTick(s)
       \/ TodosIndexError(s)
       \/ ProcessTodos(s)
       \/ CommitRollover(s)
       \/ FallbackTodos(s)
       \/ \E id \in 1..MaxRollTodos : AddTodo(s, id)
       \/ \E p \in 1..MaxRollTodos :
            \/ ToggleTodo(s, p)
            \/ ToggleFixedTodo(s, p)
            \/ HandleDragStart(s, p)
            \/ HandleDragOver(s, p)
       \/ HandleDragEnd(s)

Spec == Init /\ [][Next]_vars

\* one session, longer lists without fixed todos: additions, completion and manual
\* reorder across a date change
NextOrdering ==
  \/ AdvanceDate
  \/ \E s \in {"s1"} :
       \/ SignIn(s)
       \/ TimerTick(s)
       \/ TodosIndexError(s)
       \/ FallbackTodos(s)
       \/ ProcessTodos(s)
       \/ CommitRollover(s)
       \/ \E id \in TodoIds : AddTodo(s, id)
       \/ \E p \in 1..MaxTodos :
            \/ ToggleTodo(s, p)
            \/ HandleDragStart(s, p)
            \/ HandleDragOver(s, p)
       \/ HandleDragEnd(s)

SpecOrdering == Init /\ [][NextOrdering]_vars

\* the time-box document of one day: two sessions write entries, the first session's
\* listener is followed
NextTimeBox ==
  \/ \E s \in Sessions :
       \/ SignIn(s)
       \/ \E h \in Hours, sl \in Slots, text \in Texts : UpdateTimeBoxEntryRead(s, h, sl, text)
  \/ \E d \in Days : TimeBoxSnapshot("s1", d)
  \/ \E op \in tbOps : UpdateTimeBoxEntryWrite(op)

SpecTimeBox == Init /\ [][NextTimeBox]_vars

\* one session kept open across the day boundary, editing the slots of one hour
NextDay ==
  \/ AdvanceDate
  \/ \E s \in {"s1"} :
       \/ SignIn(s)
       \/ TimerTick(s)
       \/ \E d \in Days : TimeBoxSnapshot(s, d)
       \/ \E sl \in Slots, text \in Texts : UpdateTimeBoxEntryRead(s, 9, sl, text)
  \/ \E op \in tbOps : UpdateTimeBoxEntryWrite(op)

SpecDay == Init /\ [][NextDay]_vars

\* setInterval keeps firing: a date check that is due is eventually made
LiveSpecDay == SpecDay /\ WF_vars(TimerTick("s1"))

\* one session: the todo input with any text, across sign-in and sign-out
NextInput ==
  \E s \in {"s1"} :
    \/ SignIn(s)
    \/ SignOut(s)
    \/ ProcessTodos(s)
    \/ \E text \in TodoTexts, id \in 1..MaxRollTodos :
         \/ AddTodoText(s, text, id)
         \/ HandleSubmit(s, text, id)
    \/ \E p \in 1..MaxRollTodos : ToggleTodo(s, p)

SpecInput == Init /\ [][NextInput]_vars

\* one session: file uploads of any size, across sign-in and sign-out
NextFiles ==
  \/ ServerTick
  \/ \E s \in {"s1"} :
       \/ SignIn(s)
       \/ SignOut(s)
       \/ \E size \in FileSizes : HandleFileChange(s, size)
       \/ FilesSnapshot(s)
  \/ \E r \in fileReads :
       \/ \E id \in FileIds : FileReaderLoad(r, id)
       \/ FileReaderError(r)

SpecFiles == Init /\ [][NextFiles]_vars

\* the floating windows of one page: windows appear and disappear, any of them is focused
NextFocus ==
  \E w \in Windows :
    \/ RenderWindow(w)
    \/ RemoveWindow(w)
    \/ SetWindowFocus(w)

SpecFocus == Init /\ [][NextFocus]_vars

\* one page of one session: notes are created and rendered, the note cards, the time-box
\* and the todo-box are dragged and resized
NextDrag ==
  \/ \E s \in {"s1"} :
       \/ SignIn(s)
       \/ \E offset \in 0..MaxMove : AddNote(s, 1, offset)
       \/ NotesSnapshot(s)
       \/ \E kind \in DragKinds : StartDragging(s, kind, 1)
       \/ PointerRelease(s)
  \/ \E delta \in PointerDeltas : PointerMove(delta)

SpecDrag == Init /\ [][NextDrag]_vars

\* one session: the notes, files and todos listeners fail, with and without index
NextErrors ==
  \E s \in {"s1"} :
    \/ SignIn(s)
    \/ SignOut(s)
    \/ AddNote(s, 1, 0)
    \/ NotesSnapshot(s)
    \/ FilesSnapshot(s)
    \/ \E coll \in {"notes", "files"}, err \in SubErrors : CollectionSubError(s, coll, err)
    \/ TodosIndexError(s)
    \/ ProcessTodos(s)
    \/ FallbackTodos(s)
    \/ \E id \in 1..MaxRollTodos : AddTodo(s, id)

SpecErrors == Init /\ [][NextErrors]_vars

\* one session: the remote writes of the mutation operations are rejected
NextFailures ==
  \E s \in {"s1"} :
    \/ SignIn(s)
    \/ AddNote(s, 1, 0)
    \/ NotesSnapshot(s)
    \/ ProcessTodos(s)
    \/ AddTodo(s, 1)
    \/ HandleDragStart(s, 1)
    \/ HandleDragEnd(s)
    \/ \E op \in MutationOps, code \in ErrorCodes : MutationFails(s, op, code)

SpecFailures == Init /\ [][NextFailures]_vars

\* App of one session: the identity provider signs in and out, the boxes are opened,
\* focused and closed, todos, notes and files are submitted, the date advances
NextApp ==
  \/ AdvanceDate
  \/ \E s \in {"s1"} :
       \/ \E user \in {NoUser, User} : AuthStateChanged(s, user)
       \/ TimerTick(s)
       \/ \E w \in {"timebox", "todobox"} :
            \/ ToggleBox(s, w)
            \/ SetWindowFocus(w)
       \/ \E text \in TodoTexts : HandleSubmit(s, text, 1)
       \/ AddNote(s, 1, 0)
       \/ \E size \in FileSizes : HandleFileChange(s, size)

SpecApp == Init /\ [][NextApp]_vars

\* the hook of one session across sign-in and sign-out: every identity-scoped mutation
\* is called with and without identity, the listeners deliver what was written
NextIdentity ==
  \/ \E s \in {"s1"} :
       \/ SignIn(s)
       \/ SignOut(s)
       \/ ProcessTodos(s)
       \/ NotesSnapshot(s)
       \/ FilesSnapshot(s)
       \/ \E d \in Days : TimeBoxSnapshot(s, d)
       \/ AddTodoText(s, <<"a">>, 1)
       \/ AddNote(s, 1, 0)
       \/ AddFile(s, 0)
       \/ UpdateTimeBoxEntry(s, 9, 1, "a")
       \/ \E callback \in {"updateTodoPosition", "updateTodoBoxSize",
                           "updateTimeBoxPosition"}, g \in BoxGeometries :
            UpdateBoxGeometry(s, callback, g)
  \/ \E r \in fileReads : FileReaderLoad(r, 1)
  \/ \E op \in tbOps : UpdateTimeBoxEntryWrite(op)

SpecIdentity == Init /\ [][NextIdentity]_vars

\* the note documents of one identity: notes are created, updated field by field and
\* deleted while the server clock moves on
NextNotes ==
  \/ ServerTick
  \/ SignIn("s1")
  \/ \E id \in NoteIds :
       \/ AddNote("s1", id, 0)
       \/ DeleteNote(id)
       \/ \E callback \in NoteUpdateOps :
            \E value \in NoteUpdateValues(callback) : UpdateNote(callback, id, value)

SpecNotes == Init /\ [][NextNotes]_vars

\* one note of one session: it is written, minimized, archived, shown in the list view
\* and selected there
NextList ==
  \/ ServerTick
  \/ \E s \in {"s1"} :
       \/ SignIn(s)
       \/ AddNote(s, 1, 0)
       \/ NotesSnapshot(s)
       \/ \E activeTab \in ListTabs : HandleNoteClick(s, activeTab, 1)
  \/ \E content \in NoteContents : UpdateNote("updateNoteContent", 1, content)
  \/ \E status \in NoteStatuses : UpdateNote("updateNoteStatus", 1, status)

SpecList == Init /\ [][NextList]_vars

\* one session whose caller invokes the add operations again: todos and notes are added,
\* toggled and delivered
NextRetry ==
  \E s \in {"s1"} :
    \/ SignIn(s)
    \/ ProcessTodos(s)
    \/ NotesSnapshot(s)
    \/ \E id \in 1..MaxRollTodos : AddTodo(s, id)
    \/ \E p \in 1..MaxRollTodos : ToggleTodo(s, p)
    \/ \E id \in NoteIds : AddNote(s, id, 0)

SpecRetry == Init /\ [][NextRetry]_vars

\* one page of one session where the mouse goes down on a note card and on the todo-box
\* at any time, also while a drag session is active
NextPointer ==
  \/ \E s \in {"s1"} :
       \/ SignIn(s)
       \/ AddNote(s, 1, 0)
       \/ NotesSnapshot(s)
       \/ \E kind \in {"note", "todo"} : MouseDown(s, kind, 1)
       \/ PointerRelease(s)
  \/ \E delta \in PointerDeltas : PointerMove(delta)

SpecPointer == Init /\ [][NextPointer]_vars

\* one session on the ordered todos listener: todos are added, completed and pinned, the
\* date advances, snapshots are processed and rollover batches committed
NextRollover ==
  \/ AdvanceDate
  \/ \E s \in {"s1"} :
       \/ SignIn(s)
       \/ TimerTick(s)
       \/ ProcessTodos(s)
       \/ CommitRollover(s)
       \/ \E id \in 1..MaxRollTodos : AddTodo(s, id)
       \/ \E p \in 1..MaxRollTodos :
            \/ ToggleTodo(s, p)
            \/ ToggleFixedTodo(s, p)

SpecRollover == Init /\ [][NextRollover]_vars

\* ENABLED ProcessTodos(s), written out
ProcessTodosEnabled(s) ==
  /\ todosSub[s].mode = "ordered"
  /\ todosSub[s].pending
  /\ HasChanges(RolloverUpdates(OrderedQueryDocs(LocalTodos(s)), todosSub[s].date))
       => ~rollover[s].active

\* the commit of a batch handed to the store completes and a snapshot that is due is
\* delivered to processTodos: WF_vars(CommitRollover("s1")) and
\* WF_vars(ProcessTodos("s1")), the latter with its enabling condition written out
LiveSpecRollover ==
  /\ SpecRollover
  /\ WF_vars(CommitRollover("s1"))
  /\ \/ []<>(~ProcessTodosEnabled("s1"))
     \/ []<><<ProcessTodos("s1")>>_vars

\* two sessions of one identity on the ordered todos listener, each with its own
\* one-minute date check
NextSessions ==
  \/ AdvanceDate
  \/ \E s \in Sessions :
       \/ SignIn(s)
       \/ TimerTick(s)
       \/ ProcessTodos(s)
       \/ CommitRollover(s)
       \/ AddTodo(s, 1)
       \/ ToggleTodo(s, 1)

SpecSessions == Init /\ [][NextSessions]_vars

\* two sessions around a date change: todos are added and pinned at any time, completed
\* only after the date has advanced
NextCompletion ==
  \/ AdvanceDate
  \/ \E s \in Sessions :
       \/ SignIn(s)
       \/ TimerTick(s)
       \/ ProcessTodos(s)
       \/ CommitRollover(s)
       \/ AddTodo(s, 1)
       \/ ToggleFixedTodo(s, 1)
       \/ ToggleTodoAfterAdvance(s, 1)

SpecCompletion == Init /\ [][NextCompletion]_vars

\* the todo whose row the user picks up in the manual reorder below
DraggedTodo == 1

\* the user starts dragging the row of DraggedTodo, wherever the list shows it
HandleDragStartOn(s, p) ==
  /\ p \in 1..Len(todos[s])
  /\ todos[s][p].id = DraggedTodo
  /\ HandleDragStart(s, p)

\* one session on a fixed date: the list is built, rows are completed, and the row of
\* DraggedTodo is dragged over the other rows while the snapshots of the order writes
\* arrive at any time
NextReorder ==
  \E s \in {"s1"} :
    \/ SignIn(s)
    \/ ProcessTodos(s)
    \/ \E id \in TodoIds : AddTodo(s, id)
    \/ \E p \in 1..MaxTodos :
         \/ ToggleTodo(s, p)
         \/ HandleDragStartOn(s, p)
         \/ HandleDragOver(s, p)
    \/ HandleDragEnd(s)

SpecReorder == Init /\ [][NextReorder]_vars


\* the text the second session writes into the followed slot; the first session's user
\* types the texts of Texts only
RemoteText == "b"

\* the input of one slot in the first session, typed into and blurred at any time, while
\* the second session writes the same slot; snapshots reach both sessions
NextSlotInput ==
  \/ \E s \in Sessions : SignIn(s)
  \/ \E text \in Texts : OnChange("s1", text)
  \/ OnBlur("s1")
  \/ UpdateTimeBoxEntryRead("s2", InputHour, InputSlot, RemoteText)
  \/ \E s \in Sessions, d \in Days : TimeBoxSnapshot(s, d)
  \/ \E op \in tbOps : UpdateTimeBoxEntryWrite(op)

SpecSlotInput == Init /\ [][NextSlotInput]_vars

\* a snapshot that is due is delivered, and a setDoc whose getDoc has resolved is made
LiveSpecSlotInput ==
  /\ SpecSlotInput
  /\ WF_vars(\E d \in Days : TimeBoxSnapshot("s1", d))
  /\ WF_vars(\E op \in tbOps : UpdateTimeBoxEntryWrite(op))


\* ------------------------------------------------------------------ claims
\* C1: when a rollover batch is applied, every todo of the snapshot it was computed from
\* whose lastDate differed from the date key ends as follows: a fixed todo has
\* completed = false and lastDate = today; a non-fixed incomplete todo has lastDate = today
\* and the completed flag it had before the write; a non-fixed completed todo is not
\* written, and no list that is published contains a non-fixed completed todo of another
\* date; a todo whose lastDate equalled today is not written.
C1_RolloverOutcome ==
  [][\A s \in Sessions :
       /\ CommitRollover(s) =>
            \A id \in TodoIds :
              LET t == rollover[s].snap[id]
                  today == rollover[s].date
              IN t.exists =>
                   /\ (t.lastDate # today /\ t.fixed) =>
                        /\ remoteTodos'[id].completed = FALSE
                        /\ remoteTodos'[id].lastDate = today
                   /\ (t.lastDate # today /\ ~t.fixed /\ ~t.completed) =>
                        /\ remoteTodos'[id].lastDate = today
                        /\ remoteTodos'[id].completed = remoteTodos[id].completed
                   /\ (t.lastDate # today /\ ~t.fixed /\ t.completed) =>
                        remoteTodos'[id] = remoteTodos[id]
                   /\ (t.lastDate = today) => remoteTodos'[id] = remoteTodos[id]
       /\ (todos'[s] # todos[s]) =>
            \A i \in 1..Len(todos'[s]) :
              LET t == todos'[s][i]
              IN ~(~t.fixed /\ t.completed /\ t.lastDate # todosSub[s].date)
  ]_vars

\* a fixed todo that the list still shows completed on the previous date has been reset
\* and dated today on the server, and the batch is no longer in flight
C1_Witness ==
  \E i \in 1..Len(todos["s1"]) :
    LET t == todos["s1"][i]
    IN /\ t.fixed /\ t.completed /\ t.lastDate = 1
       /\ todayStr["s1"] = 2
       /\ ~rollover["s1"].active
       /\ remoteTodos[t.id].fixed
       /\ ~remoteTodos[t.id].completed
       /\ remoteTodos[t.id].lastDate = 2

\* C2: in every reachable state every todo of the published visible list has lastDate
\* equal to the session's date key or is fixed.
C2_VisibleOnlyCurrent ==
  \A s \in Sessions :
    \A i \in 1..Len(todos[s]) :
      todos[s][i].lastDate = todayStr[s] \/ todos[s][i].fixed

\* C3: every published visible list has all incomplete todos before all completed ones
\* and ascending order values inside each completion group.
C3_VisibleSorted ==
  \A s \in Sessions :
    \A i, j \in 1..Len(todos[s]) :
      i < j =>
        /\ ~(todos[s][i].completed /\ ~todos[s][j].completed)
        /\ (todos[s][i].completed = todos[s][j].completed =>
              todos[s][i].order <= todos[s][j].order)

\* a list of three where the completed todo has the smallest order and the two incomplete
\* ones are not in document-id order
C3_Witness ==
  /\ Len(todos["s1"]) = 3
  /\ ~todos["s1"][1].completed
  /\ ~todos["s1"][2].completed
  /\ todos["s1"][3].completed
  /\ todos["s1"][3].order < todos["s1"][1].order
  /\ todos["s1"][1].id > todos["s1"][2].id

\* C4: for the content of any todos snapshot the fallback handler issues the same remote
\* writes and publishes the same list, in the same order, as processTodos does on the
\* ordered query.
C4_FallbackTransparent ==
  \A s \in Sessions :
    userId[s] # NoUser =>
      LET today == todayStr[s]
          ordered == OrderedQueryDocs(LocalTodos(s))
          updates == RolloverUpdates(ordered, today)
          orderedOutcome ==
            IF HasChanges(updates)
            THEN [writes |-> updates, published |-> FALSE]
            ELSE [writes |-> updates, published |-> TRUE,
                  list |-> VisibleTodos(ordered, today)]
          fallbackOutcome ==
            [writes |-> [id \in TodoIds |-> "none"], published |-> TRUE,
             list |-> VisibleTodos(FallbackQueryDocs(LocalTodos(s)), today)]
      IN orderedOutcome = fallbackOutcome

\* C5: the setDoc of updateTimeBoxEntry(h, s, text) leaves every other (hour, slot) entry
\* that is present in the day's document with the value it had, whatever the
\* interleaving of the calls.
C5_PreservesOtherEntries ==
  [][\A op \in tbOps :
       UpdateTimeBoxEntryWrite(op) =>
         \A h \in Hours, sl \in Slots :
           (/\ <<h, sl>> # <<op.hour, op.slot>>
            /\ remoteTb[op.date].exists
            /\ remoteTb[op.date].entries[h].present) =>
              /\ remoteTb'[op.date].entries[h].present
              /\ SlotOf(remoteTb'[op.date].entries[h], sl)
                   = SlotOf(remoteTb[op.date].entries[h], sl)
  ]_vars

\* C6: when the calendar date has advanced past the date key of a signed-in session,
\* eventually the date key is the calendar date and the only open time-box listener is
\* the one on the document of that date.
C6_DateKeyFollowsCalendar ==
  (userId["s1"] = User /\ now # todayStr["s1"])
    ~> (todayStr["s1"] = now /\ tbSub["s1"].open = {now})

\* the session was showing the first day's time-box and is now keyed and subscribed to
\* the second day
C6_Witness ==
  /\ userId["s1"] = User
  /\ now = 2
  /\ todayStr["s1"] = 2
  /\ tbSub["s1"].open = {2}
  /\ ~timeBox["s1"].null
  /\ timeBox["s1"].id = 1

\* C7: with an identity present the time-box cache is empty or holds the document keyed
\* by the current date key, and an entry write goes to the day that is displayed.
C7_CacheIsToday ==
  \A s \in Sessions :
    (userId[s] # NoUser /\ ~timeBox[s].null) =>
      /\ timeBox[s].id = todayStr[s]
      /\ \A op \in tbOps : op.s = s => op.date = timeBox[s].id

\* the positions of list L without the one at position p
RemoveAt(L, p) == SubSeq(L, 1, p - 1) \o SubSeq(L, p + 1, Len(L))

\* C8: a drag-over that moves the dragged row to position p hands updateTodoOrder the
\* displayed list with that row relocated, and one write sets order = index (0-based) on
\* every element of it and touches no other todo; moving the last of three rows to the
\* front commits 0, 1, 2 to the former third, first and second row.
C8_OrderIsIndex ==
  [][\A s \in Sessions, p \in 1..MaxTodos :
       (HandleDragOver(s, p) /\ draggedItemIndex[s] <= Len(todos[s])) =>
         LET from == draggedItemIndex[s]
             L == MoveItem(todos[s], from, p)
         IN /\ Len(L) = Len(todos[s])
            /\ L[p] = todos[s][from]
            /\ RemoveAt(L, p) = RemoveAt(todos[s], from)
            /\ \A i \in 1..Len(L) : remoteTodos'[L[i].id].order = i - 1
            /\ \A id \in TodoIds :
                 (\A i \in 1..Len(L) : L[i].id # id) => remoteTodos'[id] = remoteTodos[id]
            /\ (Len(todos[s]) = 3 /\ from = 3 /\ p = 1) =>
                 /\ remoteTodos'[todos[s][3].id].order = 0
                 /\ remoteTodos'[todos[s][1].id].order = 1
                 /\ remoteTodos'[todos[s][2].id].order = 2
  ]_vars

\* the third row of the displayed list [A, B, C] was dragged to the front: the server
\* holds order 0, 1, 2 for C, A, B while the list still shows their earlier orders
C8_Witness ==
  /\ Len(todos["s1"]) = 3
  /\ draggedItemIndex["s1"] = 1
  /\ todos["s1"][3].order # 0
  /\ todos["s1"][1].order < todos["s1"][2].order
  /\ remoteTodos[todos["s1"][3].id].order = 0
  /\ remoteTodos[todos["s1"][1].id].order = 1
  /\ remoteTodos[todos["s1"][2].id].order = 2

\* C9: after updateTodoOrder(L) has been applied, applying it again with the same list
\* leaves every todo as it is.
C9_OrderIdempotent ==
  [][\A s \in Sessions, p \in 1..MaxTodos :
       (HandleDragOver(s, p) /\ draggedItemIndex[s] <= Len(todos[s])) =>
         LET L == MoveItem(todos[s], draggedItemIndex[s], p)
         IN UpdateTodoOrderWrites(L, UpdateTodoOrderWrites(L, remoteTodos)) = remoteTodos'
  ]_vars

\* the first of two rows was dragged below the second, and the order values written
\* differ from the ones the list shows
C9_Witness ==
  /\ Len(todos["s1"]) = 2
  /\ draggedItemIndex["s1"] = 2
  /\ todos["s1"][1].order > 0
  /\ remoteTodos[todos["s1"][2].id].order = 0
  /\ remoteTodos[todos["s1"][1].id].order = 1

C11_BlankAddTodoNoOp ==
  [][\A s \in Sessions, text \in TodoTexts, id \in TodoIds :
       ((\A i \in 1..Len(text) : text[i] = " ") /\ AddTodoText(s, text, id))
       => UNCHANGED <<remoteTodos, remoteTb, remoteNotes, remoteFiles, remoteSettings,
                      remoteTbPos, todos, timeBox, notes, files, error, todosSub>>]_vars

\* addTodo was called with white space only by a signed-in session that shows a todo
C11_Witness ==
  /\ lastOutcome["s1"] = [op |-> "addTodo", arg |-> <<" ", " ">>, result |-> "noop"]
  /\ userId["s1"] = User
  /\ Len(todos["s1"]) = 1
  /\ Cardinality({id \in TodoIds : remoteTodos[id].exists}) = 1

\* C14: a file of more than 750*1024 bytes is rejected before any remote write: no such
\* file is ever read for upload or stored in the files collection, and the choice of one
\* changes neither; a file of at most 750*1024 bytes is passed on to addFile, which starts
\* its read when an identity is present.
C14_OversizedFileRejected ==
  /\ [](/\ \A id \in FileIds : remoteFiles[id].exists => remoteFiles[id].size <= 768000
        /\ \A r \in fileReads : r.size <= 768000)
  /\ [][\A s \in Sessions, size \in FileSizes :
          HandleFileChange(s, size) =>
            IF size > 768000 THEN UNCHANGED <<remoteFiles, fileReads, files>>
            ELSE AddFile(s, size) /\ (userId[s] = User => [s |-> s, size |-> size] \in fileReads')]_vars

\* a file of 750*1024 + 1 bytes was rejected while a file of exactly 750*1024 bytes is stored
C14_Witness ==
  /\ lastOutcome["s1"] = [op |-> "handleFileChange", arg |-> <<768001>>, result |-> "rejected"]
  /\ \E id \in FileIds : remoteFiles[id].exists /\ remoteFiles[id].size = 768000
  /\ Len(files["s1"]) = 1

\* C12: after a focus event on a rendered window W, the z-index of W is strictly greater
\* than the z-index of every other rendered window, whatever the z-indexes were before.
C12_FocusedIsTopmost ==
  [][\A w \in Windows :
       (SetWindowFocus(w) /\ zIndex[w] # NotRendered)
       => \A v \in Windows \ {w} :
            zIndex'[v] # NotRendered => zIndex'[w] > ParseZIndex(zIndex'[v])]_vars

\* the third focus event in a row, with three windows rendered
C12_Witness ==
  /\ zIndex["n1"] = 52
  /\ zIndex["timebox"] = BaseZ
  /\ zIndex["todobox"] = BaseZ

\* C13: the focus function is monotonic (the z-index given to the focused window is
\* above the highest z-index there was) and after a focus event on a rendered window no
\* two rendered windows have the same z-index.
C13_FocusDistinctMonotonic ==
  [][\A w \in Windows :
       (SetWindowFocus(w) /\ zIndex[w] # NotRendered)
       => /\ zIndex'[w] > MaxZIndex(zIndex)
          /\ \A u, v \in Windows :
               (u # v /\ zIndex'[u] # NotRendered /\ zIndex'[v] # NotRendered)
               => zIndex'[u] # zIndex'[v]]_vars

\* C15: during a drag session (between start and pointer-release) no position or size is
\* persisted remotely; on pointer-release the callback matching the kind (position for the
\* move kinds, size for the resize kinds) is called exactly once with the geometry the
\* element shows at that moment, also when the pointer never moved, the write it makes
\* stores that geometry, and the controller is idle afterwards.
C15_DragCommit ==
  /\ [][(drag.state = "dragging" /\ drag'.state = "dragging")
          => /\ \A id \in NoteIds :
                  remoteNotes[id].exists
                  => /\ remoteNotes'[id].exists
                     /\ remoteNotes'[id].position = remoteNotes[id].position
                     /\ remoteNotes'[id].size = remoteNotes[id].size
             /\ UNCHANGED <<remoteTbPos, remoteSettings>>]_vars
  /\ [][(drag.state = "dragging" /\ drag' # drag)
          => LET g == visual[drag.target]
                 c == drag'.committed
             IN /\ drag'.state = "idle"
                /\ Len(c) = 1
                /\ c[1].kind = drag.kind /\ c[1].id = drag.id
                /\ drag.kind = "note" =>
                     /\ c[1].callback = "updateNotePosition"
                     /\ c[1].value = [x |-> g.x, y |-> g.y]
                     /\ remoteNotes[drag.id].exists => remoteNotes'[drag.id].position = c[1].value
                /\ drag.kind = "resize" =>
                     /\ c[1].callback = "updateNoteSize"
                     /\ c[1].value = [width |-> g.width, height |-> g.height]
                     /\ remoteNotes[drag.id].exists => remoteNotes'[drag.id].size = c[1].value
                /\ drag.kind = "time" =>
                     /\ c[1].callback = "updateTimeBoxPosition"
                     /\ c[1].value = [x |-> g.x, y |-> g.y]
                     /\ userId["s1"] = User =>
                          remoteTbPos'[todayStr["s1"]] = [set |-> TRUE, x |-> g.x, y |-> g.y]
                /\ drag.kind = "todo" =>
                     /\ c[1].callback = "updateTodoPosition"
                     /\ c[1].value = [x |-> g.x, y |-> g.y]
                     /\ userId["s1"] = User =>
                          remoteSettings'.position = [set |-> TRUE, x |-> g.x, y |-> g.y]
                /\ drag.kind = "todoResize" =>
                     /\ c[1].callback = "updateTodoBoxSize"
                     /\ c[1].value = [height |-> g.height]
                     /\ userId["s1"] = User =>
                          remoteSettings'.size = [set |-> TRUE, height |-> g.height]]_vars

\* a note shown at (100,100) was dragged and released without motion: (100,100) committed
C15_Witness ==
  /\ drag = [state |-> "idle",
             committed |-> <<[kind |-> "note", callback |-> "updateNotePosition", id |-> 1,
                              value |-> [x |-> 100, y |-> 100]]>>,
             listeners |-> 0]
  /\ drag.committed[1].value = [x |-> visual["n1"].x, y |-> visual["n1"].y]
  /\ remoteNotes[1].exists /\ remoteNotes[1].position = [x |-> 100, y |-> 100]
  /\ remoteNotes[1].size = [width |-> 301, height |-> 301]
  /\ remoteSettings.size = [set |-> TRUE, height |-> 501]

\* C16: every failure of a mutation operation's remote write is reported through the
\* error state: after the failed call the error value is a message, not null.
C16_FailureSetsError ==
  [][\A s \in Sessions, op \in MutationOps, code \in ErrorCodes :
       MutationFails(s, op, code) => error'[s] # NoError]_vars

\* C17: no mutation operation lets a rejected write escape to its caller as an exception
\* or unhandled rejection, and after a failed mutation the four caches still hold the last
\* delivered snapshot and the listeners are as open as before.
C17_FailureContained ==
  [][\A s \in Sessions, op \in MutationOps, code \in ErrorCodes :
       MutationFails(s, op, code)
       => /\ lastOutcome'[s].result # "thrown"
          /\ UNCHANGED <<notes, files, todos, timeBox, notesSub, filesSub, todosSub, tbSub>>]_vars

\* C18: a missing-index failure of the ordered notes, files or todos listener opens the
\* fallback listener and leaves the error state as it was.
C18_MissingIndexSilent ==
  [][\A s \in Sessions :
       /\ \A err \in SubErrors :
            (err.code = "failed-precondition" /\ notesSub[s].mode = "ordered"
               /\ CollectionSubError(s, "notes", err))
            => (notesSub'[s].mode = "fallback" /\ error'[s] = error[s])
       /\ \A err \in SubErrors :
            (err.code = "failed-precondition" /\ filesSub[s].mode = "ordered"
               /\ CollectionSubError(s, "files", err))
            => (filesSub'[s].mode = "fallback" /\ error'[s] = error[s])
       /\ TodosIndexError(s)
            => (todosSub'[s].mode = "fallback" /\ error'[s] = error[s])]_vars

\* the three listeners run on their fallback queries, the notes fallback has delivered a
\* snapshot, and no error is shown
C18_Witness ==
  /\ notesSub["s1"] = [mode |-> "fallback", pending |-> FALSE]
  /\ filesSub["s1"].mode = "fallback"
  /\ todosSub["s1"].mode = "fallback"
  /\ Len(notes["s1"]) = 1
  /\ Len(todos["s1"]) = 1
  /\ error["s1"] = NoError

\* C19: whenever the identity provider reports a signed-in identity to the mounted App,
\* the store subscribes with that identity: it holds an open listener for notes, for files
\* and for todos, and one for the time-box document of the current date key.
C19_SubscribedWhenSignedIn ==
  \A s \in Sessions :
    authUser[s] # NoUser
    => /\ userId[s] = authUser[s]
       /\ notesSub[s].mode \in {"ordered", "fallback"}
       /\ filesSub[s].mode \in {"ordered", "fallback"}
       /\ todosSub[s].mode \in {"ordered", "fallback"}
       /\ tbSub[s].open = {todayStr[s]}

\* C20: whenever the hook has no identity (initially or after sign-out), the notes, files
\* and todos caches are empty, the time-box cache is null and no listener is open; and
\* while no session has an identity and no write of an earlier call is still in flight,
\* no step (addNote, addTodo, addFile, time-box and settings writes included) changes
\* the remote store.
C20_NoIdentityState ==
  \A s \in Sessions :
    userId[s] = NoUser
    => /\ notes[s] = <<>>
       /\ files[s] = <<>>
       /\ todos[s] = <<>>
       /\ timeBox[s] = NoTimeBox
       /\ notesSub[s] = NoListener
       /\ filesSub[s] = NoListener
       /\ todosSub[s].mode = "none"
       /\ tbSub[s].open = {}

C21_PositionKeepsRecency ==
  [][\A id \in NoteIds :
       (remoteNotes[id].exists /\ remoteNotes'[id].exists) =>
         LET b == remoteNotes[id]
             a == remoteNotes'[id]
         IN /\ a.position # b.position
                 => /\ a = [b EXCEPT !.position = a.position]
                    /\ NoteOrder(remoteNotes') = NoteOrder(remoteNotes)
            /\ a.content # b.content
                 => a = [b EXCEPT !.content = a.content, !.lastEdited = serverTime]
            /\ a.size # b.size
                 => a = [b EXCEPT !.size = a.size, !.lastEdited = serverTime]
            /\ a.color # b.color
                 => a = [b EXCEPT !.color = a.color, !.lastEdited = serverTime]
            /\ a.status # b.status
                 => a = [b EXCEPT !.status = a.status, !.lastEdited = serverTime]]_vars

\* the older note was moved after the newer one was edited: it is still the older one
C21_Witness ==
  /\ remoteNotes[1].exists /\ remoteNotes[2].exists
  /\ serverTime = 3
  /\ remoteNotes[1].position = [x |-> 101, y |-> 101]
  /\ remoteNotes[1].lastEdited = 1
  /\ remoteNotes[2].content = <<"a">>
  /\ remoteNotes[2].lastEdited = 2
  /\ NoteOrder(remoteNotes) = <<2, 1>>

\* C22: every minimized note of the notes state is listed under the recent tab and every
\* archived note under the saved tab, whatever its content; selecting a listed note sets
\* its status to active and its lastEdited to the server time.
C22_MinimizedArchivedListed ==
  /\ [](\A s \in Sessions : \A i \in 1..Len(notes[s]) :
          /\ notes[s][i].status = "minimized"
               => \E j \in 1..Len(FilteredNotes(notes[s], "recent")) :
                     FilteredNotes(notes[s], "recent")[j].id = notes[s][i].id
          /\ notes[s][i].status = "archived"
               => \E j \in 1..Len(FilteredNotes(notes[s], "saved")) :
                     FilteredNotes(notes[s], "saved")[j].id = notes[s][i].id)
  /\ [][\A s \in Sessions, id \in NoteIds :
          (\E activeTab \in ListTabs : HandleNoteClick(s, activeTab, id))
          => /\ remoteNotes'[id].status = "active"
             /\ remoteNotes'[id].lastEdited = serverTime]_vars

\* C23: invoking a mutation operation again with the same arguments after the first
\* invocation took effect leaves the remote store as the first invocation left it: an
\* addTodo that follows an addTodo of the same session whose document is written adds no
\* second todo, and an addNote (which has no arguments) invoked while a note it created
\* exists adds no second note.
C23_RetryLeavesStore ==
  [][\A s \in Sessions :
       /\ \A id \in 1..MaxRollTodos :
            (AddTodo(s, id) /\ lastAdd[s].called /\ remoteTodos[lastAdd[s].id].exists)
            => remoteTodos' = remoteTodos
       /\ \A id \in NoteIds :
            (AddNote(s, id, 0) /\ userId[s] # NoUser /\ \E n \in NoteIds : remoteNotes[n].exists)
            => remoteNotes' = remoteNotes]_vars

\* C24: a snapshot on which a rollover update is scheduled publishes no list and hands
\* the whole batch to commit; a list is published only for a snapshot that needs no
\* rollover update; and a displayed todo that needs rollover under the session's date key
\* is never left without a rollover batch in flight or a snapshot still to be processed.
C24_TwoPhaseRollover ==
  /\ [][\A s \in Sessions :
          /\ (ProcessTodos(s)
              /\ HasChanges(RolloverUpdates(OrderedQueryDocs(LocalTodos(s)), todosSub[s].date)))
             => /\ todos'[s] = todos[s]
                /\ rollover'[s].active
                /\ rollover'[s].updates =
                     RolloverUpdates(OrderedQueryDocs(LocalTodos(s)), todosSub[s].date)
          /\ (todos'[s] # todos[s])
             => ~HasChanges(RolloverUpdates(OrderedQueryDocs(LocalTodos(s)),
                                            todosSub[s].date))]_vars
  /\ [](\A s \in Sessions : \A i \in 1..Len(todos[s]) :
          RolloverKind(todos[s][i], todayStr[s]) # "none"
          => rollover[s].active \/ todosSub[s].pending)

\* C25: the controller is idle with no document-level listener, or dragging one target
\* with one set of them; a start made while a session is active leaves that session's
\* kind, target, start geometry and listeners as they are; after the release no listener
\* remains.
C25_OneDragSession ==
  /\ [](\/ drag.state = "idle" /\ drag.listeners = 0
        \/ drag.state = "dragging" /\ drag.listeners = 1 /\ drag.target \in Windows)
  /\ [][(drag.state = "dragging" /\ drag'.state = "dragging")
          => drag' = [drag EXCEPT !.starts = drag'.starts]]_vars
  /\ [][(drag.state = "dragging" /\ drag'.state = "idle") => drag'.listeners = 0]_vars

\* the todo-box is being dragged, it has been moved, and a second start was made
C25_Witness ==
  /\ drag.state = "dragging"
  /\ drag.kind = "todo"
  /\ drag.starts = 2
  /\ drag.listeners = 1
  /\ visual["todobox"] # drag.start

C27_LastDateMonotonic ==
  [][\A id \in TodoIds :
       (remoteTodos[id].exists /\ remoteTodos'[id].exists)
       => remoteTodos'[id].lastDate >= remoteTodos[id].lastDate]_vars

\* C28: a todo that was completed after the calendar date advanced (every completion of
\* this specification is) stays completed through the commit of every rollover batch, as
\* long as the date does not advance again.
C28_CompletionSurvivesRollover ==
  [][\A s \in Sessions :
       CommitRollover(s) =>
         \A id \in TodoIds :
           (remoteTodos[id].exists /\ remoteTodos[id].completed)
           => remoteTodos'[id].completed]_vars


\* the position of todo id in a list that holds it
PositionOf(list, id) == CHOOSE i \in 1..Len(list) : list[i].id = id

\* C29: during a manual reorder every list handed to updateTodoOrder is the displayed
\* list with only the todo the user started dragging (DraggedTodo in this specification)
\* relocated to the hovered index, whatever the interleaving of drag-over events and
\* snapshot deliveries.
C29_OnlyDraggedRelocated ==
  [][\A s \in Sessions, p \in 1..MaxTodos :
       HandleDragOver(s, p) =>
         /\ draggedItemIndex[s] <= Len(todos[s])
         /\ \E q \in 1..Len(todos[s]) : todos[s][q].id = DraggedTodo
         /\ MoveItem(todos[s], draggedItemIndex[s], p)
              = MoveItem(todos[s], PositionOf(todos[s], DraggedTodo), p)
  ]_vars


\* C30: while the text of a slot input equals the snapshot value it shows and no edit of
\* the user is on its way to the server (the user holds no uncommitted edit), the text
\* follows the delivered snapshots: a snapshot that brings the other session's value for
\* the slot replaces the text, and a value stored for the slot that differs from the text
\* is eventually displayed unless the user types or the stored value changes again.
C30_InputFollowsSnapshot ==
  /\ [][\A d \in Days :
          (/\ TimeBoxSnapshot("s1", d)
           /\ val["s1"] = InitialValue(timeBox["s1"])
           /\ \A op \in tbOps : op.s # "s1"
           /\ InitialValue(timeBox'["s1"]) = RemoteText)
          => val'["s1"] = RemoteText]_vars
  /\ \A v \in Texts \cup {RemoteText}, t \in Texts \cup {RemoteText} :
       (/\ v # t
        /\ val["s1"] = v
        /\ InitialValue(timeBox["s1"]) = v
        /\ todayStr["s1"] \in tbSub["s1"].open
        /\ RemoteValue(todayStr["s1"]) = t)
       ~> (val["s1"] # v \/ RemoteValue(todayStr["s1"]) # t)

====
